---------------------------- MODULE Spec2Model ----------------------------
(***************************************************************************)
(* StreamHub: the player store (queue / transport coordinator) of          *)
(* src/src/stores/usePlayerStore.ts together with the AudioEngine it       *)
(* drives.  Store actions run to their first await in one step; what       *)
(* follows each await is a pending continuation kept in `tasks`.           *)
(*                                                                         *)
(* Times are in tenths of a second (1.5 s = 15, 3 s = 30, 10 s = 100).     *)
(* Volumes are in tenths (0.7 = 7, 1 = 10); EQ gains are whole dB.         *)
(* Queue positions are 0-based as in the code; -1 is "no selection".       *)
(***************************************************************************)
EXTENDS Integers, Sequences, FiniteSets, Bags, TLC

VARIABLES
    currentTrack,   \* store: currentTrack (NoTrack models null)
    isPlaying,      \* store: isPlaying
    progress,       \* store: progress, tenths of a second
    queue,          \* store: queue
    queueIndex,     \* store: queueIndex
    shuffle,        \* store: shuffle
    repeat,         \* store: repeat
    volume,         \* store: volume, tenths
    muted,          \* store: muted
    eqEnabled,      \* store: eqEnabled
    eqBands,        \* store: eqBands (Hole models an empty array slot)
    eqPresetName,   \* store: eqPresetName
    isInitialized,  \* engine: isInitialized (audio element and graph exist)
    src,            \* engine: the track whose source audioElement.src holds
    paused,         \* engine: audioElement.paused
    currentTime,    \* engine: audioElement.currentTime, tenths of a second
    gainNode,       \* engine: <<gainNode.gain.value>>, <<>> while gainNode is null
    eqNodes,        \* engine: the gain.value of each of eqNodes, <<>> before initialize
    mediaError,     \* engine: audioElement.error is set (the source failed to load or decode)
    contextState,   \* engine: audioContext.state, "none" while audioContext is null
    liveUrls,       \* engine: object URLs created by loadFile and not revoked
    listeners,      \* engine: eventListeners still holds the store's callbacks
    builds,         \* history: graphs constructed since startup or the last destroy()
    spotifyService, \* catalog service: its token, its pending calls, requests of a search
    tasks,          \* pending continuations of async store / engine calls
    lastOp          \* history: the operation (and its branch) that produced this state

transportVars == <<currentTrack, isPlaying, progress, queue, queueIndex, shuffle, repeat>>
hostVars == <<mediaError, contextState, liveUrls, listeners, builds, spotifyService>>
elementVars == <<isInitialized, src, paused, currentTime, hostVars>>
settingsVars == <<volume, muted, eqEnabled, eqBands, eqPresetName>>
graphVars == <<gainNode, eqNodes>>
storeVars == <<currentTrack, isPlaying, progress, queue, queueIndex, shuffle, repeat,
               settingsVars>>
engineVars == <<elementVars, graphVars>>
vars == <<storeVars, engineVars, tasks, lastOp>>

-----------------------------------------------------------------------------
(* Bounds *)

MaxQueue == 3
MaxPending == 1
MaxOverlap == 2
MaxRequests == 3

-----------------------------------------------------------------------------
(* Tracks (types/index.ts).  A track is its id and the kind of source the  *)
(* store's setTrack can get from it: a local file handle, a stream URL, or *)
(* neither (a catalog track whose stream was not resolved).  TrackC and    *)
(* TrackR are one catalog track before and after stream resolution: they   *)
(* share the id.                                                           *)

NoTrack == [id |-> "none", kind |-> "null"]
TrackA == [id |-> "a", kind |-> "file"]
TrackC == [id |-> "c", kind |-> "none"]
TrackR == [id |-> "c", kind |-> "stream"]
Tracks == {TrackA, TrackC, TrackR}

RepeatModes == <<"off", "all", "one">>
TimeValues == {0, 15, 30, 100}
SeekThreshold == 30

-----------------------------------------------------------------------------
(* Volume and equalizer (AudioEngine.ts, the store's initial state) *)

InitialVolume == 8
UnityGain == 10
MinVolume == 0
MaxVolume == 10
MinGain == -12
MaxGain == 12

\* EQ_FREQUENCIES: one band per entry
EQ_FREQUENCIES == <<32, 64, 125, 250, 500, 1000, 2000, 4000, 8000, 16000>>

\* the store's initial eqBands
FlatBands == <<0, 0, 0, 0, 0, 0, 0, 0, 0, 0>>

EQ_PRESETS ==
    << [name |-> "Flat", bands |-> <<0, 0, 0, 0, 0, 0, 0, 0, 0, 0>>],
       [name |-> "Bass Boost", bands |-> <<6, 5, 4, 2, 0, 0, 0, 0, 0, 0>>],
       [name |-> "Treble Boost", bands |-> <<0, 0, 0, 0, 0, 1, 2, 4, 5, 6>>],
       [name |-> "Vocal", bands |-> <<-2, -1, 0, 2, 4, 4, 3, 1, 0, -1>>],
       [name |-> "Electronic", bands |-> <<4, 3, 0, -2, -1, 1, 0, 3, 4, 4>>],
       [name |-> "Rock", bands |-> <<4, 3, 1, 0, -1, 0, 1, 3, 4, 4>>],
       [name |-> "Pop", bands |-> <<-1, 1, 3, 4, 3, 1, 0, 1, 2, 2>>],
       [name |-> "Jazz", bands |-> <<2, 1, 0, 1, 2, 3, 3, 2, 2, 2>>],
       [name |-> "Classical", bands |-> <<3, 2, 1, 1, 0, 0, 0, 1, 2, 3>>],
       [name |-> "Hip Hop", bands |-> <<5, 4, 2, 1, 0, 0, 1, 0, 2, 2>>] >>

\* Entries of a JavaScript array that are not numbers: Hole is an empty
\* slot (forEach skips it, a spread copies it as undefined), Undefined is an
\* undefined element.  Both lie outside every gain the model uses.
Hole == 998
Undefined == 999

\* Math.max(lo, Math.min(hi, x))
Clamp(lo, hi, x) == IF x < lo THEN lo ELSE IF x > hi THEN hi ELSE x

\* initialize(): createGain() (gain.value defaults to 1) and one filter per
\* frequency with gain.value = 0
NewGainNode == <<UnityGain>>
NewEqNodes == [k \in 1..Len(EQ_FREQUENCIES) |-> 0]

\* mutant: ensureInitialized() builds the filters anew every time
RebuiltEqNodes == NewEqNodes

\* ensureInitialized(): initialize() returns at once when already initialized
InitializedGainNode == IF isInitialized THEN gainNode ELSE NewGainNode
InitializedEqNodes == IF isInitialized THEN eqNodes ELSE NewEqNodes
InitializedBuilds == IF isInitialized THEN builds ELSE builds + 1

\* the state of the context once initialize() has run: a context created
\* in a user interaction starts running
InitializedContext == IF isInitialized THEN contextState ELSE "running"

\* mutant: a failed initialize() leaves the engine marked initialized
FailedInitializeSetsFlag == TRUE

\* isInitialized after initialize() threw: the assignment is not reached
FailedInitialize == FALSE

\* mutant: loadSource never revokes
RevokedByLoadNever == IF src.kind = "file" THEN 0 ELSE 0

\* loadSource / destroy: the object URLs revoked (src starts with 'blob:')
RevokedByLoad == IF src.kind = "file" THEN 1 ELSE 0

\* loadFile: URL.createObjectURL(file); loadStream creates none
CreatedByLoad(track) == IF track.kind = "file" THEN 1 ELSE 0

\* mutant: a load whose track is no longer current is discarded
LoadedSourceIfCurrent(track) == IF track = currentTrack THEN track ELSE src

\* loadSource: this.audioElement.src = url
LoadedSource(track) == track


-----------------------------------------------------------------------------
(* JavaScript array helpers, 0-based *)

\* queue[i]: undefined (NoTrack) outside the array
At(q, i) == IF i >= 0 /\ i < Len(q) THEN q[i + 1] ELSE NoTrack

\* queue.findIndex((t) => t.id === id)
FindIndex(q, id) ==
    IF \E k \in 1..Len(q) : q[k].id = id
    THEN (CHOOSE k \in 1..Len(q) : q[k].id = id /\ \A j \in 1..(k - 1) : q[j].id # id) - 1
    ELSE -1

\* queue.filter((_, i) => i !== index)
FilterOut(q, index) ==
    LET keep == {k \in 0..(Len(q) - 1) : k # index}
        n == Cardinality(keep)
    IN [k \in 1..n |-> IF k - 1 < index \/ index < 0 THEN q[k] ELSE q[k + 1]]

\* Array.prototype.splice start normalisation
SpliceStart(q, start) ==
    IF start < 0 THEN (IF Len(q) + start > 0 THEN Len(q) + start ELSE 0)
    ELSE IF start > Len(q) THEN Len(q) ELSE start

\* the array after q.splice(start, 1)
SpliceRemove(q, start) ==
    LET s == SpliceStart(q, start)
    IN IF s < Len(q) THEN SubSeq(q, 1, s) \o SubSeq(q, s + 2, Len(q)) ELSE q

\* the element q.splice(start, 1) returns ([removed]); undefined when none
SpliceRemoved(q, start) == At(q, SpliceStart(q, start))

\* the array after q.splice(start, 0, item)
SpliceInsert(q, start, item) ==
    LET s == SpliceStart(q, start)
    IN SubSeq(q, 1, s) \o <<item>> \o SubSeq(q, s + 1, Len(q))

-----------------------------------------------------------------------------
(* Pending continuations.  A task is [t, pc, flag]: t the track, pc the    *)
(* await it is suspended at, flag whether set({isPlaying: true}) follows.  *)
(*   "getFile"  await track.fileHandle.getFile()                           *)
(*   "load"     await audioEngine.loadFile / loadStream                    *)
(*   "play"     audioEngine.play() up to audioElement.play()               *)
(*   "started"  the promise of audioElement.play() is pending              *)
(*   "loadResume" / "playResume"  await audioContext.resume() inside the   *)
(*              ensureInitialized() of a load / of play()                  *)
(*   "rejected" the awaited promise was rejected by destroy()              *)
(* awaited tells whether the caller of the action awaits or catches its    *)
(* promise; the 'ended' handler calls play() and next() and drops theirs.  *)

Task(t, pc, flag) == [t |-> t, pc |-> pc, flag |-> flag, awaited |-> TRUE]
Detached(task) == [task EXCEPT !.awaited = FALSE]
At_pc(task, pc) == [task EXCEPT !.pc = pc]
Pending == BagCardinality(tasks)
Spawn(task) == tasks (+) SetToBag({task})
Replace(old, new) == (tasks (-) SetToBag({old})) (+) SetToBag({new})
Finish(old) == tasks (-) SetToBag({old})

\* history record: the operation and which of its branches ran
Op(op, b) == [op |-> op, b |-> b]

\* a continuation that ends in a failure: 0 when the failure reaches the
\* caller of the action, 2 when nobody awaits it (an unhandled rejection)
Failure(task) == IF task.awaited THEN 0 ELSE 2

\* setTrack up to its first await: the await the continuation waits at
SetTrackPc(track) ==
    IF track.kind = "file" THEN "getFile"
    ELSE IF track.kind = "stream" THEN "load"
    ELSE "play"

-----------------------------------------------------------------------------
\* new SpotifyService(): no token, and the constructor's init() has called
\* getAccessToken(), whose fetch of /api/token is pending
NewSpotifyService ==
    [accessToken |-> "null", init |-> "token", pc |-> "idle", requests |-> 0,
     result |-> "none"]

Init ==
    /\ currentTrack = NoTrack
    /\ isPlaying = FALSE
    /\ progress = 0
    /\ queue = <<>>
    /\ queueIndex = -1
    /\ shuffle = FALSE
    /\ repeat = "off"
    /\ volume = InitialVolume
    /\ muted = FALSE
    /\ eqEnabled = TRUE
    /\ eqBands = FlatBands
    /\ eqPresetName = "Flat"
    /\ isInitialized = FALSE
    /\ src = NoTrack
    /\ paused = TRUE
    /\ currentTime = 0
    /\ gainNode = <<>>
    /\ eqNodes = <<>>
    /\ mediaError = FALSE
    /\ contextState = "none"
    /\ liveUrls = 0
    /\ listeners = TRUE
    /\ builds = 0
    /\ spotifyService = NewSpotifyService
    /\ tasks = EmptyBag
    /\ lastOp = Op("init", 0)

-----------------------------------------------------------------------------
(* The index computations of the store actions *)

\* playTrack: queueIndex for a supplied queue (index >= 0 ? index : 0)
PlayTrackIndex(q, track) ==
    LET index == FindIndex(q, track.id)
    IN IF index >= 0 THEN index ELSE 0

\* mutant: the wrap to 0 ignores the repeat mode
NextChoicesAlwaysWrap(q, qi, rep, shuf) ==
    IF Len(q) = 0 THEN {}
    ELSE IF shuf THEN 0..(Len(q) - 1)
    ELSE IF qi + 1 >= Len(q) THEN {0} ELSE {qi + 1}

\* mutant: the end of the queue never wraps
NextChoicesNeverWrap(q, qi, rep, shuf) ==
    IF Len(q) = 0 THEN {}
    ELSE IF shuf THEN 0..(Len(q) - 1)
    ELSE IF qi + 1 >= Len(q) THEN {} ELSE {qi + 1}

\* mutant: shuffle never picks the current entry again
NextChoicesSkipCurrent(q, qi, rep, shuf) ==
    IF Len(q) = 0 THEN {}
    ELSE IF shuf THEN (0..(Len(q) - 1)) \ {qi}
    ELSE IF qi + 1 >= Len(q)
         THEN (IF rep = "all" THEN {0} ELSE {})
         ELSE {qi + 1}

\* next: the indices nextIndex can take; empty when next() returns early
NextChoices(q, qi, rep, shuf) ==
    IF Len(q) = 0 THEN {}
    ELSE IF shuf THEN 0..(Len(q) - 1)
    ELSE IF qi + 1 >= Len(q)
         THEN (IF rep = "all" THEN {0} ELSE {})
         ELSE {qi + 1}

\* mutant: the comparison is reversed
ShouldRestartBelow(p) == p < SeekThreshold

\* mutant: any elapsed time restarts the track
ShouldRestartAnyProgress(p) == p > 0

\* previous: if (progress > 3) restart the current track
ShouldRestart(p) == p > SeekThreshold

\* mutant: no wrap to the last entry
PrevIndexNoWrap(q, qi) == IF qi > 0 THEN qi - 1 ELSE 0

\* previous: prevIndex
PrevIndex(q, qi) == IF qi > 0 THEN qi - 1 ELSE Len(q) - 1

\* mutant: the index is not clamped when the current, last entry goes
RemoveIndexNoClamp(q, qi, index) == IF index < qi THEN qi - 1 ELSE qi

\* removeFromQueue: newIndex
RemoveIndex(q, qi, index) ==
    LET newLen == Len(FilterOut(q, index))
    IN IF index < qi THEN qi - 1
       ELSE IF index = qi /\ qi >= newLen THEN newLen - 1
       ELSE qi

\* reorderQueue: newQueue
ReorderQueueResult(q, fromIndex, toIndex) ==
    SpliceInsert(SpliceRemove(q, fromIndex), toIndex, SpliceRemoved(q, fromIndex))

\* mutant: an entry moved from before the current one always shifts it
ReorderIndexIgnoresTarget(qi, fromIndex, toIndex) ==
    IF qi = fromIndex THEN toIndex
    ELSE IF fromIndex < qi THEN qi - 1
    ELSE IF fromIndex > qi /\ toIndex <= qi THEN qi + 1
    ELSE qi

\* reorderQueue: newIndex
ReorderIndex(qi, fromIndex, toIndex) ==
    IF qi = fromIndex THEN toIndex
    ELSE IF fromIndex < qi /\ toIndex >= qi THEN qi - 1
    ELSE IF fromIndex > qi /\ toIndex <= qi THEN qi + 1
    ELSE qi

\* mutant: the track goes in front
AddedQueueInFront(q, track) == <<track>> \o q

\* addToQueue: [...state.queue, track]
AddedQueue(q, track) == Append(q, track)

\* mutant: clearQueue keeps the index
ClearedIndexKept == queueIndex

\* clearQueue: queueIndex
ClearedIndex == -1

\* mutant: the 'ended' handler never replays
EndedReplaysNever(rep) == FALSE

\* 'ended' handler: state.repeat === 'one'
EndedReplays(rep) == rep = "one"

\* mutant: seekTo leaves the position
SeekToZeroKeepsTime == currentTime

\* AudioEngine.seekTo(0): audioElement.currentTime = max(0, min(0, duration || 0))
SeekToZero == IF isInitialized THEN 0 ELSE currentTime

-----------------------------------------------------------------------------
(* Store actions.  lastOp records the branch taken:                        *)
(*   next / ended   0 returned early, 1 moved, 2 (ended) repeat-one replay,*)
(*                  3 picked the current position again                    *)
(*   previous       0 returned early, 1 moved back, 2 restarted the track, *)
(*                  3 wrapped from 0, 4 went to the last entry from -1     *)
(*   removeFromQueue 0 another entry, 1 the current one, 2 the current one *)
(*                  while it was the last entry                            *)
(*   clearQueue     1 the queue had entries, 0 it was empty                *)
(*   reorderQueue   0 index kept, 1 the current entry moved, 2 shifted,    *)
(*                  3 the current entry moved onto itself, 4 another entry *)
(*                  moved onto itself                                      *)
(*   task steps     1 went on, 0 threw / rejected                          *)

\* playTrack(track, queue?) up to the first await inside setTrack
playTrackBody(track, hasQueue, q) ==
    /\ queue' = IF hasQueue THEN q ELSE queue
    /\ queueIndex' = IF hasQueue THEN PlayTrackIndex(q, track) ELSE queueIndex
    /\ currentTrack' = track
    /\ tasks' = Spawn(Task(track, SetTrackPc(track), TRUE))
    /\ lastOp' = Op(IF hasQueue THEN "playTrackQueue" ELSE "playTrack", 0)
    /\ UNCHANGED <<isPlaying, progress, shuffle, repeat, settingsVars, engineVars>>

\* playTrack while no other call is pending
playTrack(track, hasQueue, q) ==
    /\ Pending < MaxPending
    /\ playTrackBody(track, hasQueue, q)

\* playTrack issued while earlier calls are still at an await
playTrackOverlapping(track) ==
    /\ Pending < MaxOverlap
    /\ playTrackBody(track, FALSE, <<>>)

\* mutant: the chosen track becomes current only in the continuation
ChosenTrackStale(q, n) == currentTrack

\* next / previous: set({ queueIndex }) and, in the same run, playTrack ->
\* setTrack -> set({ currentTrack: queue[index] })
ChosenTrack(q, n) == At(q, n)

\* next(), also called by the 'ended' handler (op names the caller), with
\* fewer than limit calls pending
nextWithin(op, limit) ==
    LET choices == {n \in NextChoices(queue, queueIndex, repeat, shuffle) :
                        At(queue, n) # NoTrack}
    IN \/ /\ choices = {}
          /\ lastOp' = Op(op, 0)
          /\ UNCHANGED <<storeVars, tasks>>
       \/ \E n \in choices :
          /\ Pending < limit
          /\ queueIndex' = n
          /\ currentTrack' = ChosenTrack(queue, n)
          /\ tasks' = Spawn(IF op = "ended"
                            THEN Detached(Task(At(queue, n), SetTrackPc(At(queue, n)), TRUE))
                            ELSE Task(At(queue, n), SetTrackPc(At(queue, n)), TRUE))
          /\ lastOp' = Op(op, IF n = queueIndex THEN 3 ELSE 1)
          /\ UNCHANGED <<isPlaying, progress, queue, shuffle, repeat, settingsVars>>

nextBody(op) == nextWithin(op, MaxPending)

next ==
    /\ nextBody("next")
    /\ UNCHANGED engineVars

\* next() called while earlier calls are still at an await
nextOverlapping ==
    /\ nextWithin("next", MaxOverlap)
    /\ UNCHANGED engineVars

\* previous() with fewer than limit calls pending
previousWithin(limit) ==
    \/ /\ ShouldRestart(progress)
       /\ currentTime' = SeekToZero
       /\ lastOp' = Op("previous", 2)
       /\ UNCHANGED <<storeVars, isInitialized, src, paused, hostVars, graphVars, tasks>>
    \/ /\ ~ShouldRestart(progress)
       /\ \/ Len(queue) = 0
          \/ At(queue, PrevIndex(queue, queueIndex)) = NoTrack
       /\ lastOp' = Op("previous", 0)
       /\ UNCHANGED <<storeVars, engineVars, tasks>>
    \/ /\ ~ShouldRestart(progress)
       /\ Len(queue) # 0
       /\ At(queue, PrevIndex(queue, queueIndex)) # NoTrack
       /\ Pending < limit
       /\ LET prevIndex == PrevIndex(queue, queueIndex)
          IN /\ queueIndex' = prevIndex
             /\ currentTrack' = ChosenTrack(queue, prevIndex)
             /\ tasks' = Spawn(Task(At(queue, prevIndex), SetTrackPc(At(queue, prevIndex)), TRUE))
       /\ lastOp' = Op("previous", IF queueIndex > 0 THEN 1 ELSE IF queueIndex = 0 THEN 3 ELSE 4)
       /\ UNCHANGED <<isPlaying, progress, queue, shuffle, repeat, settingsVars, engineVars>>

previous ==
    /\ previousWithin(MaxPending)
    /\ UNCHANGED settingsVars

\* previous() called while earlier calls are still at an await
previousOverlapping ==
    /\ previousWithin(MaxOverlap)
    /\ UNCHANGED settingsVars

togglePlayPause ==
    \/ /\ isPlaying
       /\ paused' = TRUE
       /\ isPlaying' = FALSE
       /\ lastOp' = Op("togglePlayPause", 0)
       /\ UNCHANGED <<currentTrack, progress, queue, queueIndex, shuffle, repeat,
                      settingsVars, isInitialized, src, currentTime, hostVars, graphVars,
                      tasks>>
    \/ /\ ~isPlaying
       /\ Pending < MaxPending
       /\ tasks' = Spawn(Task(NoTrack, "play", TRUE))
       /\ lastOp' = Op("togglePlayPause", 1)
       /\ UNCHANGED <<storeVars, engineVars>>

toggleShuffle ==
    /\ shuffle' = ~shuffle
    /\ lastOp' = Op("toggleShuffle", 0)
    /\ UNCHANGED <<currentTrack, isPlaying, progress, queue, queueIndex, repeat,
                   settingsVars, engineVars, tasks>>

cycleRepeat ==
    /\ LET currentIndex == CHOOSE k \in 1..Len(RepeatModes) : RepeatModes[k] = repeat
       IN repeat' = RepeatModes[(currentIndex % Len(RepeatModes)) + 1]
    /\ lastOp' = Op("cycleRepeat", 0)
    /\ UNCHANGED <<currentTrack, isPlaying, progress, queue, queueIndex, shuffle,
                   settingsVars, engineVars, tasks>>

addToQueue(track) ==
    /\ Len(queue) < MaxQueue
    /\ queue' = AddedQueue(queue, track)
    /\ lastOp' = Op("addToQueue", 0)
    /\ UNCHANGED <<currentTrack, isPlaying, progress, queueIndex, shuffle, repeat,
                   settingsVars, engineVars, tasks>>

removeFromQueue(index) ==
    /\ queue' = FilterOut(queue, index)
    /\ queueIndex' = RemoveIndex(queue, queueIndex, index)
    /\ lastOp' = Op("removeFromQueue",
                    IF index # queueIndex THEN 0
                    ELSE IF queueIndex = Len(queue) - 1 THEN 2 ELSE 1)
    /\ UNCHANGED <<currentTrack, isPlaying, progress, shuffle, repeat, settingsVars,
                   engineVars, tasks>>

clearQueue ==
    /\ queue' = <<>>
    /\ queueIndex' = ClearedIndex
    /\ lastOp' = Op("clearQueue", IF Len(queue) > 0 THEN 1 ELSE 0)
    /\ UNCHANGED <<currentTrack, isPlaying, progress, shuffle, repeat, settingsVars,
                   engineVars, tasks>>

reorderQueue(fromIndex, toIndex) ==
    /\ queue' = ReorderQueueResult(queue, fromIndex, toIndex)
    /\ queueIndex' = ReorderIndex(queueIndex, fromIndex, toIndex)
    /\ lastOp' = Op("reorderQueue",
                    IF fromIndex = toIndex THEN (IF fromIndex = queueIndex THEN 3 ELSE 4)
                    ELSE IF fromIndex = queueIndex THEN 1
                    ELSE IF queueIndex' # queueIndex THEN 2 ELSE 0)
    /\ UNCHANGED <<currentTrack, isPlaying, progress, shuffle, repeat, settingsVars,
                   engineVars, tasks>>

-----------------------------------------------------------------------------
(* Volume and equalizer: the engine's methods as functions of the graph,   *)
(* then the store actions.  lastOp records the branch taken:               *)
(*   toggleMute     0 muted, 1 muted right after setVolume, 2 unmuted,     *)
(*                  3 unmuted right after a toggleMute labelled 1          *)
(*   setEQBand      1 the index is a band, 0 it is not                     *)
(*   setEQBands     0 applied, 1 the engine threw on an undefined gain     *)
(*   applyEQPreset  1 known preset, 0 unknown name                         *)
(*   toggleEQ       0 disabled (the record also keeps the live gains the   *)
(*                  graph had before), 1 enabled, 2 enabled and the engine *)
(*                  threw on an undefined gain                             *)
(*   initialize     1 built the graph, 0 emitted 'error' and threw,        *)
(*                  2 was initialized already                              *)

\* AudioEngine.setVolume: nothing happens while gainNode is null
engine_setVolume(node, v) ==
    IF node = <<>> THEN node ELSE <<Clamp(MinVolume, MaxVolume, v)>>

\* AudioEngine.setEQBand
engine_setEQBand(nodes, index, gain) ==
    IF index >= 0 /\ index < Len(nodes)
    THEN [nodes EXCEPT ![index + 1] = Clamp(MinGain, MaxGain, gain)]
    ELSE nodes

\* AudioEngine.setEQBands: gains.forEach((gain, index) => setEQBand(index, gain)),
\* from position k on.  forEach skips empty slots; an undefined gain for an
\* existing band clamps to NaN, and assigning NaN to gain.value throws, which
\* leaves the later bands as they were.
RECURSIVE engine_setEQBandsFrom(_, _, _)
engine_setEQBandsFrom(nodes, gains, k) ==
    IF k > Len(gains) THEN nodes
    ELSE IF gains[k] = Hole THEN engine_setEQBandsFrom(nodes, gains, k + 1)
    ELSE IF gains[k] = Undefined /\ k <= Len(nodes) THEN nodes
    ELSE engine_setEQBandsFrom(engine_setEQBand(nodes, k - 1, gains[k]), gains, k + 1)

engine_setEQBands(nodes, gains) == engine_setEQBandsFrom(nodes, gains, 1)

\* whether AudioEngine.setEQBands(gains) throws
SetEQBandsThrows(nodes, gains) ==
    \E k \in 1..Len(gains) :
        /\ k <= Len(nodes)
        /\ gains[k] = Undefined
        /\ \A j \in 1..(k - 1) : j <= Len(nodes) => gains[j] # Undefined

\* AudioEngine.setEQEnabled: only disabling touches the nodes
engine_setEQEnabled(nodes, enabled) ==
    IF enabled THEN nodes ELSE [k \in 1..Len(nodes) |-> 0]

\* [...state.eqBands]: the copy has undefined where the array had empty slots
Spread(a) == [k \in 1..Len(a) |-> IF a[k] = Hole THEN Undefined ELSE a[k]]

\* newBands[index] = gain: past the end the array grows and the slots in
\* between stay empty; a negative index sets a property, not an element
AssignAt(a, index, gain) ==
    IF index < 0 THEN a
    ELSE IF index < Len(a) THEN [a EXCEPT ![index + 1] = gain]
    ELSE [k \in 1..(index + 1) |->
             IF k <= Len(a) THEN a[k] ELSE IF k = index + 1 THEN gain ELSE Hole]

\* mutant: an unknown name falls back on the first preset
FindPresetOrFirst(name) ==
    IF \E k \in 1..Len(EQ_PRESETS) : EQ_PRESETS[k].name = name
    THEN CHOOSE k \in 1..Len(EQ_PRESETS) : EQ_PRESETS[k].name = name
    ELSE 1

\* EQ_PRESETS.find((p) => p.name === presetName): its position, 0 when absent
FindPreset(name) ==
    IF \E k \in 1..Len(EQ_PRESETS) : EQ_PRESETS[k].name = name
    THEN CHOOSE k \in 1..Len(EQ_PRESETS) : EQ_PRESETS[k].name = name
    ELSE 0

setVolume(v) ==
    /\ gainNode' = engine_setVolume(gainNode, v)
    /\ volume' = v
    /\ muted' = FALSE
    /\ lastOp' = Op("setVolume", 0)
    /\ UNCHANGED <<transportVars, eqEnabled, eqBands, eqPresetName, elementVars,
                   eqNodes, tasks>>

toggleMute ==
    \/ /\ muted
       /\ gainNode' = engine_setVolume(gainNode, volume)
       /\ muted' = FALSE
       /\ lastOp' = Op("toggleMute", IF lastOp = Op("toggleMute", 1) THEN 3 ELSE 2)
       /\ UNCHANGED <<transportVars, volume, eqEnabled, eqBands, eqPresetName,
                      elementVars, eqNodes, tasks>>
    \/ /\ ~muted
       /\ gainNode' = engine_setVolume(gainNode, 0)
       /\ muted' = TRUE
       /\ lastOp' = Op("toggleMute", IF lastOp.op = "setVolume" THEN 1 ELSE 0)
       /\ UNCHANGED <<transportVars, volume, eqEnabled, eqBands, eqPresetName,
                      elementVars, eqNodes, tasks>>

setEQBand(index, gain) ==
    /\ eqNodes' = engine_setEQBand(eqNodes, index, gain)
    /\ eqBands' = AssignAt(Spread(eqBands), index, gain)
    /\ eqPresetName' = "Custom"
    /\ lastOp' = Op("setEQBand",
                    IF index >= 0 /\ index < Len(EQ_FREQUENCIES) THEN 1 ELSE 0)
    /\ UNCHANGED <<transportVars, volume, muted, eqEnabled, elementVars, gainNode, tasks>>

setEQBands(gains) ==
    /\ eqNodes' = engine_setEQBands(eqNodes, gains)
    /\ eqBands' = IF SetEQBandsThrows(eqNodes, gains) THEN eqBands ELSE gains
    /\ lastOp' = Op("setEQBands", IF SetEQBandsThrows(eqNodes, gains) THEN 1 ELSE 0)
    /\ UNCHANGED <<transportVars, volume, muted, eqEnabled, eqPresetName, elementVars,
                   gainNode, tasks>>

applyEQPreset(presetName) ==
    \/ /\ FindPreset(presetName) # 0
       /\ LET preset == EQ_PRESETS[FindPreset(presetName)]
          IN /\ eqNodes' = engine_setEQBands(eqNodes, preset.bands)
             /\ eqBands' = preset.bands
       /\ eqPresetName' = presetName
       /\ lastOp' = Op("applyEQPreset", 1)
       /\ UNCHANGED <<transportVars, volume, muted, eqEnabled, elementVars, gainNode, tasks>>
    \/ /\ FindPreset(presetName) = 0
       /\ lastOp' = Op("applyEQPreset", 0)
       /\ UNCHANGED <<storeVars, engineVars, tasks>>

toggleEQ ==
    \/ /\ eqEnabled
       /\ eqNodes' = engine_setEQEnabled(eqNodes, FALSE)
       /\ eqEnabled' = FALSE
       /\ lastOp' = [op |-> "toggleEQ", b |-> 0, live |-> eqNodes]
       /\ UNCHANGED <<transportVars, volume, muted, eqBands, eqPresetName, elementVars,
                      gainNode, tasks>>
    \/ /\ ~eqEnabled
       /\ eqNodes' = engine_setEQBands(engine_setEQEnabled(eqNodes, TRUE), eqBands)
       /\ eqEnabled' = TRUE
       /\ lastOp' = Op("toggleEQ", IF SetEQBandsThrows(eqNodes, eqBands) THEN 2 ELSE 1)
       /\ UNCHANGED <<transportVars, volume, muted, eqBands, eqPresetName, elementVars,
                      gainNode, tasks>>

\* AudioEngine.initialize(), as called by the App on the first interaction
initialize ==
    \/ /\ isInitialized
       /\ lastOp' = Op("initialize", 2)
       /\ UNCHANGED <<storeVars, engineVars, tasks>>
    \/ /\ ~isInitialized
       /\ isInitialized' = TRUE
       /\ gainNode' = NewGainNode
       /\ eqNodes' = NewEqNodes
       /\ contextState' = "running"
       /\ builds' = builds + 1
       /\ lastOp' = Op("initialize", 1)
       /\ UNCHANGED <<storeVars, src, paused, currentTime, mediaError, liveUrls,
                      listeners, spotifyService, tasks>>
    \/ /\ ~isInitialized
       /\ isInitialized' = FailedInitialize
       /\ lastOp' = Op("initialize", 0)
       /\ UNCHANGED <<storeVars, src, paused, currentTime, hostVars, graphVars, tasks>>

-----------------------------------------------------------------------------
(* Continuations of the async calls, one step per await that waits for    *)
(* something outside the engine.  lastOp records the branch taken:         *)
(*   1 went on, 3 went on to wait for audioContext.resume(),               *)
(*   0 failed and the failure reached the caller, 2 failed unawaited       *)

\* setTrack: await track.fileHandle.getFile() resolves, or throws
getFileStep(task) ==
    /\ task.pc = "getFile"
    /\ \/ /\ tasks' = Replace(task, At_pc(task, "load"))
          /\ lastOp' = Op("getFile", 1)
       \/ /\ tasks' = Finish(task)
          /\ lastOp' = Op("getFile", Failure(task))
    /\ UNCHANGED <<storeVars, engineVars>>

\* ensureInitialized() up to its resume(): initialize() when not initialized
EnsureInitialized ==
    /\ isInitialized' = TRUE
    /\ gainNode' = InitializedGainNode
    /\ eqNodes' = InitializedEqNodes
    /\ builds' = InitializedBuilds
    /\ UNCHANGED <<listeners, spotifyService>>

\* loadFile / loadStream past ensureInitialized(): createObjectURL for a
\* file, then loadSource revokes the previous object URL and assigns
\* audioElement.src, which resets the element (paused, time 0, no error)
AssignSource(task) ==
    /\ src' = LoadedSource(task.t)
    /\ paused' = TRUE
    /\ currentTime' = 0
    /\ mediaError' = FALSE
    /\ liveUrls' = (liveUrls - RevokedByLoad) + CreatedByLoad(task.t)
    /\ tasks' = Replace(task, At_pc(task, "play"))

\* AudioEngine.loadFile / loadStream: ensureInitialized, then the source is
\* assigned, unless the context is suspended and resume() is awaited first;
\* initialize() may throw, which ends the calling action
loadStep(task) ==
    /\ task.pc = "load"
    /\ \/ /\ EnsureInitialized
          /\ IF InitializedContext = "suspended"
             THEN /\ contextState' = "suspended"
                  /\ tasks' = Replace(task, At_pc(task, "loadResume"))
                  /\ lastOp' = Op("load", 3)
                  /\ UNCHANGED <<src, paused, currentTime, mediaError, liveUrls>>
             ELSE /\ contextState' = InitializedContext
                  /\ AssignSource(task)
                  /\ lastOp' = Op("load", 1)
       \/ /\ ~isInitialized
          /\ isInitialized' = FailedInitialize
          /\ tasks' = Finish(task)
          /\ lastOp' = Op("load", Failure(task))
          /\ UNCHANGED <<src, paused, currentTime, hostVars, graphVars>>
    /\ UNCHANGED storeVars

\* audioContext.resume() awaited by a load resolves
loadResumeStep(task) ==
    /\ task.pc = "loadResume"
    /\ isInitialized
    /\ contextState' = "running"
    /\ AssignSource(task)
    /\ lastOp' = Op("loadResume", 1)
    /\ UNCHANGED <<storeVars, isInitialized, listeners, builds, spotifyService, graphVars>>

\* AudioEngine.play: ensureInitialized, then audioElement.play() is called
playStep(task) ==
    /\ task.pc = "play"
    /\ \/ /\ EnsureInitialized
          /\ IF InitializedContext = "suspended"
             THEN /\ contextState' = "suspended"
                  /\ tasks' = Replace(task, At_pc(task, "playResume"))
                  /\ lastOp' = Op("play", 3)
                  /\ UNCHANGED paused
             ELSE /\ contextState' = InitializedContext
                  /\ paused' = FALSE
                  /\ tasks' = Replace(task, At_pc(task, "started"))
                  /\ lastOp' = Op("play", 1)
          /\ UNCHANGED <<src, currentTime, mediaError, liveUrls>>
       \/ /\ ~isInitialized
          /\ isInitialized' = FailedInitialize
          /\ tasks' = Finish(task)
          /\ lastOp' = Op("play", Failure(task))
          /\ UNCHANGED <<src, paused, currentTime, hostVars, graphVars>>
    /\ UNCHANGED storeVars

\* audioContext.resume() awaited by play() resolves
playResumeStep(task) ==
    /\ task.pc = "playResume"
    /\ isInitialized
    /\ contextState' = "running"
    /\ paused' = FALSE
    /\ tasks' = Replace(task, At_pc(task, "started"))
    /\ lastOp' = Op("playResume", 1)
    /\ UNCHANGED <<storeVars, isInitialized, src, currentTime, mediaError, liveUrls,
                   listeners, builds, spotifyService, graphVars>>

\* the promise of audioElement.play() settles.  It resolves only for a
\* source that plays; on success the store action that awaited it runs
\* set({ isPlaying: true }).  A rejection for another reason than a media
\* error (not allowed, aborted) leaves the element paused.
startedStep(task) ==
    /\ task.pc = "started"
    /\ tasks' = Finish(task)
    /\ \/ /\ src # NoTrack
          /\ ~mediaError
          /\ isPlaying' = IF task.flag THEN TRUE ELSE isPlaying
          /\ lastOp' = Op("started", 1)
          /\ UNCHANGED paused
       \/ /\ UNCHANGED isPlaying
          /\ paused' = IF mediaError \/ src = NoTrack THEN paused ELSE TRUE
          /\ lastOp' = Op("started", Failure(task))
    /\ UNCHANGED <<currentTrack, progress, queue, queueIndex, shuffle, repeat,
                   settingsVars, isInitialized, src, currentTime, hostVars, graphVars>>

\* a promise that destroy() caused to reject reaches its continuation
rejectedStep(task) ==
    /\ task.pc = "rejected"
    /\ tasks' = Finish(task)
    /\ lastOp' = Op("rejected", Failure(task))
    /\ UNCHANGED <<storeVars, engineVars>>

-----------------------------------------------------------------------------
(* Engine events reaching the store *)

\* audioElement 'timeupdate' -> updateProgress(currentTime, duration)
timeupdate(t) ==
    /\ isInitialized
    /\ IF src # NoTrack /\ ~paused /\ ~mediaError
       THEN t >= currentTime ELSE t = currentTime
    /\ currentTime' = t
    /\ progress' = IF listeners THEN t ELSE progress
    /\ lastOp' = Op("timeupdate", 0)
    /\ UNCHANGED <<currentTrack, isPlaying, queue, queueIndex, shuffle, repeat,
                   settingsVars, isInitialized, src, paused, hostVars, graphVars, tasks>>

\* audioElement 'ended' (the element pauses itself at the end of the source)
ended ==
    /\ isInitialized
    /\ src # NoTrack
    /\ ~paused
    /\ ~mediaError
    /\ paused' = TRUE
    /\ IF ~listeners
       THEN /\ lastOp' = Op("ended", 4)
            /\ UNCHANGED <<storeVars, isInitialized, src, currentTime, hostVars,
                           graphVars, tasks>>
       ELSE IF EndedReplays(repeat)
       THEN /\ Pending < MaxPending
            /\ currentTime' = SeekToZero
            /\ tasks' = Spawn(Detached(Task(NoTrack, "play", FALSE)))
            /\ lastOp' = Op("ended", 2)
            /\ UNCHANGED <<storeVars, isInitialized, src, hostVars, graphVars>>
       ELSE /\ nextBody("ended")
            /\ UNCHANGED <<isInitialized, src, currentTime, hostVars, graphVars>>

\* audioElement 'error': the source failed to load or decode.  The engine
\* emits 'error'; the store has no listener for it.
errorEvent ==
    /\ isInitialized
    /\ src # NoTrack
    /\ ~mediaError
    /\ mediaError' = TRUE
    /\ lastOp' = Op("error", 0)
    /\ UNCHANGED <<storeVars, isInitialized, src, paused, currentTime, contextState,
                   liveUrls, listeners, builds, spotifyService, graphVars, tasks>>

-----------------------------------------------------------------------------
(* Engine lifecycle *)

\* the platform suspends the audio context
suspend ==
    /\ isInitialized
    /\ contextState = "running"
    /\ contextState' = "suspended"
    /\ lastOp' = Op("suspend", 0)
    /\ UNCHANGED <<storeVars, isInitialized, src, paused, currentTime, mediaError,
                   liveUrls, listeners, builds, spotifyService, graphVars, tasks>>

\* the tasks after destroy(): pausing the element and closing the context
\* reject the play() and resume() promises that are pending
AfterDestroy(task) ==
    IF task.pc \in {"started", "loadResume", "playResume"}
    THEN At_pc(task, "rejected") ELSE task

RECURSIVE DestroyedTasks(_)
DestroyedTasks(B) ==
    IF B = EmptyBag THEN EmptyBag
    ELSE LET task == CHOOSE x \in BagToSet(B) : TRUE
             rest == [x \in BagToSet(B) \ {task} |-> B[x]]
         IN DestroyedTasks(rest)
               (+) [x \in {AfterDestroy(task)} |-> B[task]]

\* AudioEngine.destroy()
destroy ==
    /\ isInitialized' = FALSE
    /\ src' = NoTrack
    /\ paused' = TRUE
    /\ currentTime' = 0
    /\ mediaError' = FALSE
    /\ contextState' = "none"
    /\ liveUrls' = liveUrls - RevokedByLoad
    /\ listeners' = FALSE
    /\ builds' = 0
    /\ UNCHANGED spotifyService
    /\ gainNode' = <<>>
    /\ eqNodes' = <<>>
    /\ tasks' = DestroyedTasks(tasks)
    /\ lastOp' = Op("destroy", IF isInitialized THEN 1 ELSE 0)
    /\ UNCHANGED storeVars

-----------------------------------------------------------------------------
(* Seeking.  The duration is what audioElement.duration reports when the   *)
(* call is made: NaN until the metadata of the source has arrived.         *)

\* audioElement.duration before the metadata has arrived (NaN)
DurationNaN == -1

\* if (this.audioElement.duration), this.audioElement.duration || 0
DurationOrZero(d) == IF d = DurationNaN THEN 0 ELSE d

\* seek: position * duration, the position being in tenths of the track
SeekPosition(position, d) == (position * d) \div 10

\* mutant: seekTo assigns the time it is given
SeekToUnclamped(time, d) == time

\* seekTo: Math.max(0, Math.min(time, duration || 0))
SeekToPosition(time, d) ==
    LET upper == DurationOrZero(d)
        least == IF time < upper THEN time ELSE upper
    IN IF least > 0 THEN least ELSE 0

\* the durations the element can report in the current state: none without
\* a source, and never one that the position has passed
Reports(d) ==
    IF ~isInitialized \/ src = NoTrack THEN d = DurationNaN
    ELSE \/ d = DurationNaN /\ currentTime = 0
         \/ d >= currentTime

\* AudioEngine.seek(position), called by the store's seek action
seek(position, d) ==
    /\ Reports(d)
    /\ currentTime' = IF isInitialized /\ DurationOrZero(d) # 0
                      THEN SeekPosition(position, d) ELSE currentTime
    /\ lastOp' = [op |-> "seek", b |-> position, duration |-> d]
    /\ UNCHANGED <<storeVars, isInitialized, src, paused, hostVars, graphVars, tasks>>

\* AudioEngine.seekTo(time)
seekTo(time, d) ==
    /\ Reports(d)
    /\ currentTime' = IF isInitialized THEN SeekToPosition(time, d) ELSE currentTime
    /\ lastOp' = [op |-> "seekTo", b |-> time, duration |-> d]
    /\ UNCHANGED <<storeVars, isInitialized, src, paused, hostVars, graphVars, tasks>>

-----------------------------------------------------------------------------
(* Search view: playing a search result, a catalog track being resolved   *)
(* to a stream first                                                       *)

\* what the search shows: local results, then catalog results
SearchResults == <<TrackA, TrackC>>

\* StreamResolver.resolveTrack: a URL, null (no match, or an error it
\* caught), or a rejection (the cache lookup outside its try block failed)
ResolverOutcomes == {"url", "null", "throws"}

\* StreamResolver.resolveAndUpdate: the track with the stream URL, or with none
ResolveAndUpdate(track, outcome) == IF outcome = "url" THEN TrackR ELSE track

\* mutant: the resolved track is played whatever it carries
HasStreamUrlUnchecked(track) == TRUE

\* if (resolvedTrack.streamUrl)
HasStreamUrl(track) == track.kind = "stream"

\* history label of a resolution that ended: the resolver's outcome
OutcomeLabel(outcome) ==
    IF outcome = "url" THEN 1 ELSE IF outcome = "null" THEN 0 ELSE 4

\* playTrack(track, results) called and not awaited by the view
PlayFromSearch(track, before) ==
    /\ queue' = SearchResults
    /\ queueIndex' = PlayTrackIndex(SearchResults, track)
    /\ currentTrack' = track
    /\ tasks' = before (+) SetToBag({Detached(Task(track, SetTrackPc(track), TRUE))})

\* handlePlayTrack(track) up to its first await
handlePlayTrack(track) ==
    /\ Pending < MaxPending
    /\ IF track.kind = "none"
       THEN /\ tasks' = Spawn(Task(track, "resolve", TRUE))
            /\ lastOp' = Op("handlePlayTrack", 1)
            /\ UNCHANGED <<queue, queueIndex, currentTrack>>
       ELSE /\ PlayFromSearch(track, tasks)
            /\ lastOp' = Op("handlePlayTrack", 0)
    /\ UNCHANGED <<isPlaying, progress, shuffle, repeat, settingsVars, engineVars>>

\* await streamResolver.resolveAndUpdate(track) settles: playTrack for a
\* track with a stream URL, an alert otherwise
resolveStep(task, outcome) ==
    /\ task.pc = "resolve"
    /\ LET resolvedTrack == ResolveAndUpdate(task.t, outcome)
       IN IF outcome # "throws" /\ HasStreamUrl(resolvedTrack)
          THEN PlayFromSearch(resolvedTrack, Finish(task))
          ELSE /\ tasks' = Finish(task)
               /\ UNCHANGED <<queue, queueIndex, currentTrack>>
    /\ lastOp' = Op("resolve", OutcomeLabel(outcome))
    /\ UNCHANGED <<isPlaying, progress, shuffle, repeat, settingsVars, engineVars>>

-----------------------------------------------------------------------------
(* SpotifyService: one step per fetch that settles.  accessToken is "null", *)
(* "valid" or "expired" (Date.now() has passed tokenExpiration); requests   *)
(* counts the search requests of the search() call in progress.            *)

serviceFrame ==
    UNCHANGED <<storeVars, isInitialized, src, paused, currentTime, mediaError,
                contextState, liveUrls, listeners, builds, graphVars, tasks>>

\* getAccessToken(): the cached token is returned without a fetch
TokenCached == spotifyService.accessToken = "valid"

\* search: if (response.status === 401) return this.search(query)
Retries(requests) == TRUE

\* the fetch of the search endpoint is issued
SearchRequested(service) ==
    [service EXCEPT !.pc = "search", !.requests = @ + 1]

\* search returns
SearchReturned(service, result) ==
    [service EXCEPT !.pc = "done", !.result = result]

\* getAccessToken() inside search(): the cached token, or a fetch of it
SearchWithToken(service) ==
    IF service.accessToken = "valid"
    THEN SearchRequested(service)
    ELSE [service EXCEPT !.pc = "token"]

\* the constructor's getAccessToken(): its fetch of /api/token settles
initTokenStep(ok) ==
    /\ spotifyService.init = "token"
    /\ spotifyService' = [spotifyService EXCEPT
                             !.init = "done",
                             !.accessToken = IF ok THEN "valid" ELSE @]
    /\ lastOp' = Op("initToken", IF ok THEN 1 ELSE 0)
    /\ serviceFrame

\* Date.now() passes tokenExpiration
expire ==
    /\ spotifyService.accessToken = "valid"
    /\ spotifyService' = [spotifyService EXCEPT !.accessToken = "expired"]
    /\ lastOp' = Op("expire", 0)
    /\ serviceFrame

\* search(query) is called
search ==
    /\ spotifyService.pc \in {"idle", "done"}
    /\ spotifyService' =
          SearchWithToken([spotifyService EXCEPT !.requests = 0, !.result = "none"])
    /\ lastOp' = Op("search", IF TokenCached THEN 1 ELSE 0)
    /\ serviceFrame

\* getAccessToken() inside search(): the fetch of /api/token settles; without
\* a token search returns []
tokenStep(ok) ==
    /\ spotifyService.pc = "token"
    /\ spotifyService.requests < MaxRequests
    /\ spotifyService' =
          IF ok THEN SearchRequested([spotifyService EXCEPT !.accessToken = "valid"])
          ELSE SearchReturned(spotifyService, "empty")
    /\ lastOp' = Op("token", IF ok THEN 1 ELSE 0)
    /\ serviceFrame

\* the fetch of the search endpoint settles: the tracks, a 401 (the token is
\* dropped and search calls itself), or another failure ([] is returned)
searchStep(outcome) ==
    /\ spotifyService.pc = "search"
    /\ spotifyService' =
          IF outcome = "ok" THEN SearchReturned(spotifyService, "tracks")
          ELSE IF outcome = "401" /\ Retries(spotifyService.requests)
          THEN SearchWithToken([spotifyService EXCEPT !.accessToken = "null"])
          ELSE SearchReturned(spotifyService, "empty")
    /\ lastOp' = Op("searchResponse",
                    IF outcome = "ok" THEN 1 ELSE IF outcome = "401" THEN 3 ELSE 0)
    /\ serviceFrame

-----------------------------------------------------------------------------
(* Persistence: the persist middleware writes partialize(state) as JSON on  *)
(* every set(); on startup the saved object is merged over the initial     *)
(* state.                                                                  *)

\* null, which JSON.stringify writes for an empty slot or undefined in an array
JsonNull == 997

JsonRoundTrip(x) == IF x \in {Hole, Undefined} THEN JsonNull ELSE x

\* partialize: the subset of the state that is saved
partialize ==
    [volume |-> volume, shuffle |-> shuffle, repeat |-> repeat,
     eqEnabled |-> eqEnabled, eqBands |-> eqBands, eqPresetName |-> eqPresetName]

\* JSON.parse(JSON.stringify(saved))
Rehydrated(saved) ==
    [saved EXCEPT !.eqBands = [k \in 1..Len(@) |-> JsonRoundTrip(@[k])]]

\* the queue after a restart: not in partialize, so the initial one
RestoredQueue == <<>>

\* the application restarts: a new page, a new store rehydrated from the
\* saved subset, a new engine
restart ==
    LET saved == Rehydrated(partialize)
    IN /\ currentTrack' = NoTrack
       /\ isPlaying' = FALSE
       /\ progress' = 0
       /\ queue' = RestoredQueue
       /\ queueIndex' = -1
       /\ shuffle' = saved.shuffle
       /\ repeat' = saved.repeat
       /\ volume' = saved.volume
       /\ muted' = FALSE
       /\ eqEnabled' = saved.eqEnabled
       /\ eqBands' = saved.eqBands
       /\ eqPresetName' = saved.eqPresetName
       /\ isInitialized' = FALSE
       /\ src' = NoTrack
       /\ paused' = TRUE
       /\ currentTime' = 0
       /\ gainNode' = <<>>
       /\ eqNodes' = <<>>
       /\ mediaError' = FALSE
       /\ contextState' = "none"
       /\ liveUrls' = 0
       /\ listeners' = TRUE
       /\ builds' = 0
       /\ spotifyService' = NewSpotifyService
       /\ tasks' = EmptyBag
       /\ lastOp' = Op("restart", 0)

-----------------------------------------------------------------------------
(* Specifications *)

InRange(q) == 0..(Len(q) - 1)

\* the queues and tracks the views hand to playTrack / addToQueue
SuppliedQueues == {<<>>, <<TrackC, TrackR>>, <<TrackC, TrackA, TrackR>>}
QueueTracks == {TrackA, TrackC}
EditQueues == UNION {[1..n -> QueueTracks] : n \in 0..MaxQueue}

TaskSteps ==
    \/ \E task \in BagToSet(tasks) : getFileStep(task)
    \/ \E task \in BagToSet(tasks) : loadStep(task)
    \/ \E task \in BagToSet(tasks) : playStep(task)
    \/ \E task \in BagToSet(tasks) : startedStep(task)

\* Transport: playback, next / previous, the engine and its events.  The
\* queue changes only by playTrack replacing it.
Next ==
    \/ \E track \in Tracks : playTrack(track, FALSE, <<>>)
    \/ \E track \in Tracks, q \in SuppliedQueues : playTrack(track, TRUE, q)
    \/ next
    \/ previous
    \/ togglePlayPause
    \/ toggleShuffle
    \/ cycleRepeat
    \/ TaskSteps
    \/ \E t \in TimeValues : timeupdate(t)
    \/ ended

Spec == Init /\ [][Next]_vars

\* Queue editing: every queue action with in-range indices, and playTrack,
\* next and previous, whose continuations run as in Spec.  No engine event
\* is delivered, so progress keeps its starting value: the session starts
\* fresh, or 10 s into TrackA (a state Spec reaches, see MidSessionNotReached).
MidSession ==
    /\ currentTrack = TrackA
    /\ isPlaying = TRUE
    /\ progress = 100
    /\ queue = <<>>
    /\ queueIndex = -1
    /\ shuffle = FALSE
    /\ repeat = "off"
    /\ volume = InitialVolume
    /\ muted = FALSE
    /\ eqEnabled = TRUE
    /\ eqBands = FlatBands
    /\ eqPresetName = "Flat"
    /\ isInitialized = TRUE
    /\ src = TrackA
    /\ paused = FALSE
    /\ currentTime = 100
    /\ gainNode = NewGainNode
    /\ eqNodes = NewEqNodes
    /\ mediaError = FALSE
    /\ contextState = "running"
    /\ liveUrls = 1
    /\ listeners = TRUE
    /\ builds = 1
    /\ spotifyService = NewSpotifyService
    /\ tasks = EmptyBag
    /\ lastOp = Op("timeupdate", 0)

InitQueue == Init \/ MidSession

NextQueue ==
    \/ \E track \in QueueTracks : playTrack(track, FALSE, <<>>)
    \/ \E track \in QueueTracks, q \in EditQueues : playTrack(track, TRUE, q)
    \/ next
    \/ previous
    \/ toggleShuffle
    \/ cycleRepeat
    \/ \E track \in QueueTracks : addToQueue(track)
    \/ \E index \in InRange(queue) : removeFromQueue(index)
    \/ clearQueue
    \/ \E fromIndex \in InRange(queue), toIndex \in InRange(queue) :
          reorderQueue(fromIndex, toIndex)
    \/ TaskSteps

SpecQueue == InitQueue /\ [][NextQueue]_vars

\* Volume: setVolume with values inside and outside [0, 1], toggleMute, and
\* the engine being initialized at any point of the session.
VolumeValues == {-5, 0, 3, 7, 10, 15}

NextVolume ==
    \/ \E v \in VolumeValues : setVolume(v)
    \/ toggleMute
    \/ initialize

SpecVolume == Init /\ [][NextVolume]_vars

\* Equalizer: every EQ action, with band indices inside and outside the
\* bands, gains inside and outside [-12, 12], gain arrays shorter and longer
\* than the bands, known and unknown preset names, and the engine being
\* initialized at any point of the session.
BandIndexValues == {-1, 3, 10}
GainValues == {-20, 6, 20}
SuppliedGains == {<<6, 20>>, <<1, 1, 1, 1, 1, 1, 1, 1, 1, 1, 1>>}
PresetNames == {"Flat", "Bass Boost", "Loud"}

NextEQ ==
    \/ \E index \in BandIndexValues, gain \in GainValues : setEQBand(index, gain)
    \/ \E gains \in SuppliedGains : setEQBands(gains)
    \/ \E presetName \in PresetNames : applyEQPreset(presetName)
    \/ toggleEQ
    \/ initialize

SpecEQ == Init /\ [][NextEQ]_vars

\* Queue editing with any index: removeFromQueue and reorderQueue with
\* indices inside and outside the queue (negative, at and past the length),
\* on the queues playTrack supplies.  The queue never grows past MaxQueue.
AnyIndex == -1..MaxQueue

NextRange ==
    \/ \E track \in QueueTracks, q \in EditQueues : playTrack(track, TRUE, q)
    \/ \E index \in AnyIndex : removeFromQueue(index)
    \/ \E fromIndex \in AnyIndex, toIndex \in AnyIndex :
          /\ Len(ReorderQueueResult(queue, fromIndex, toIndex)) <= MaxQueue
          /\ reorderQueue(fromIndex, toIndex)
    \/ TaskSteps

SpecRange == Init /\ [][NextRange]_vars

\* Engine lifecycle: overlapping playTrack calls for a local file and for a
\* stream, initialize() and destroy() at any point, the platform suspending
\* the context, and a volume and an EQ gain that differ from the defaults.
EngineTracks == {TrackA, TrackR}

EngineTaskSteps ==
    \/ TaskSteps
    \/ \E task \in BagToSet(tasks) : loadResumeStep(task)
    \/ \E task \in BagToSet(tasks) : playResumeStep(task)
    \/ \E task \in BagToSet(tasks) : rejectedStep(task)

NextEngine ==
    \/ \E track \in EngineTracks : playTrackOverlapping(track)
    \/ EngineTaskSteps
    \/ initialize
    \/ destroy
    \/ suspend
    \/ setVolume(3)
    \/ setEQBand(3, 6)

SpecEngine == Init /\ [][NextEngine]_vars

\* Failures: playback through a queue with the file access, the engine
\* initialization and the play() promise failing (the second branch of each
\* task step) and the element reporting progress or a media error.
NextFailure ==
    \/ \E track \in Tracks, q \in SuppliedQueues : playTrack(track, TRUE, q)
    \/ next
    \/ previous
    \/ cycleRepeat
    \/ TaskSteps
    \/ \E t \in TimeValues : timeupdate(t)
    \/ ended
    \/ errorEvent

SpecFailure == Init /\ [][NextFailure]_vars

\* Volume across loads: setVolume and toggleMute before, between and after
\* the loads of playTrack, the engine being initialized by the first
\* interaction or by the first load.
NextGain ==
    \/ \E v \in VolumeValues : setVolume(v)
    \/ toggleMute
    \/ initialize
    \/ \E track \in EngineTracks : playTrack(track, FALSE, <<>>)
    \/ TaskSteps

SpecGain == Init /\ [][NextGain]_vars

\* Engine lifecycle under the coordinator: playback through a queue with
\* the engine's events delivered, and destroy() and initialize() at any
\* point of the session.
NextLifecycle ==
    \/ \E track \in EngineTracks, q \in SuppliedQueues : playTrack(track, TRUE, q)
    \/ cycleRepeat
    \/ TaskSteps
    \/ \E task \in BagToSet(tasks) : rejectedStep(task)
    \/ initialize
    \/ destroy
    \/ \E t \in TimeValues : timeupdate(t)
    \/ ended

SpecLifecycle == Init /\ [][NextLifecycle]_vars

\* Persistence: the settings actions, playback through a queue, and the
\* application restarting at any point.
NextPersist ==
    \/ setVolume(3)
    \/ toggleShuffle
    \/ cycleRepeat
    \/ toggleEQ
    \/ setEQBand(3, 6)
    \/ setEQBands(<<6, 20>>)
    \/ \E presetName \in {"Bass Boost", "Loud"} : applyEQPreset(presetName)
    \/ playTrack(TrackA, TRUE, <<TrackC, TrackA, TrackR>>)
    \/ TaskSteps
    \/ timeupdate(15)
    \/ restart

SpecPersist == Init /\ [][NextPersist]_vars

\* Search: playing local and catalog results, the resolver finding a
\* stream, finding none or failing, between next() calls and engine events.
NextSearch ==
    \/ \E track \in {TrackA, TrackC} : handlePlayTrack(track)
    \/ \E task \in BagToSet(tasks), outcome \in ResolverOutcomes :
          resolveStep(task, outcome)
    \/ next
    \/ TaskSteps
    \/ \E t \in TimeValues : timeupdate(t)

SpecSearch == Init /\ [][NextSearch]_vars

\* Seeking: seek with fractions of the track and seekTo with times below,
\* inside and past the track, before a source is loaded, before its
\* duration is known and during playback.
DurationValues == {DurationNaN, 0, 100, 300}
FractionValues == {0, 5, 10}
SeekTimes == {-50, 0, 15, 100, 400}

NextSeek ==
    \/ \E position \in FractionValues, d \in DurationValues : seek(position, d)
    \/ \E time \in SeekTimes, d \in DurationValues : seekTo(time, d)
    \/ \E track \in EngineTracks : playTrack(track, FALSE, <<>>)
    \/ TaskSteps
    \/ \E t \in TimeValues : timeupdate(t)

SpecSeek == Init /\ [][NextSeek]_vars

\* Catalog search: search() calls one after the other, with every answer
\* of the token endpoint and of the search endpoint, the token expiring at
\* any time.
SearchOutcomes == {"ok", "401", "error"}

NextSpotify ==
    \/ \E ok \in BOOLEAN : initTokenStep(ok)
    \/ expire
    \/ search
    \/ \E ok \in BOOLEAN : tokenStep(ok)
    \/ \E outcome \in SearchOutcomes : searchStep(outcome)

SpecSpotify == Init /\ [][NextSpotify]_vars

\* Overlapping transport calls: next() and previous() called while the
\* loads of earlier calls are still pending, on the queues playTrack
\* supplies.
NextOverlap ==
    \/ \E q \in SuppliedQueues : playTrack(TrackA, TRUE, q)
    \/ nextOverlapping
    \/ previousOverlapping
    \/ cycleRepeat
    \/ TaskSteps
    \/ \E t \in TimeValues : timeupdate(t)

SpecOverlap == Init /\ [][NextOverlap]_vars

-----------------------------------------------------------------------------
(* Reachability of SpecQueue's second starting state under Spec *)

MidSessionNotReached == ~MidSession

-----------------------------------------------------------------------------
(* Queue index invariant *)

IndexInRange == queueIndex = -1 \/ (0 <= queueIndex /\ queueIndex < Len(queue))

\* C1: after any sequence of addToQueue, removeFromQueue, reorderQueue,
\* clearQueue (in-range indices), playTrack with or without a queue, next
\* and previous, queueIndex is -1 or within [0, queue.length).
C1_QueueIndexInRange == IndexInRange

\* C2: addToQueue, removeFromQueue(i) with i # queueIndex and
\* reorderQueue(from, to), with in-range indices and queueIndex # -1 before
\* the call, leave queue[queueIndex] the same track as before the call.
C2_CurrentTrackKept ==
    [][(/\ queueIndex # -1
        /\ \/ \E track \in QueueTracks : addToQueue(track)
           \/ \E index \in InRange(queue) : index # queueIndex /\ removeFromQueue(index)
           \/ \E fromIndex \in InRange(queue), toIndex \in InRange(queue) :
                 reorderQueue(fromIndex, toIndex))
       => At(queue', queueIndex') = At(queue, queueIndex)]_vars

\* The same statement for a queueIndex that denotes an entry: it holds.
CurrentTrackKeptWhenSelected ==
    [][(/\ queueIndex \in InRange(queue)
        /\ \/ \E track \in QueueTracks : addToQueue(track)
           \/ \E index \in InRange(queue) : index # queueIndex /\ removeFromQueue(index)
           \/ \E fromIndex \in InRange(queue), toIndex \in InRange(queue) :
                 reorderQueue(fromIndex, toIndex))
       => At(queue', queueIndex') = At(queue, queueIndex)]_vars

-----------------------------------------------------------------------------
(* next() *)

\* playTrack(track) has been called by this step: the track is current and
\* its continuation is pending
Plays(track) ==
    /\ currentTrack' = track
    /\ tasks' = tasks (+) SetToBag({Task(track, SetTrackPc(track), TRUE)})

AtLast == Len(queue) > 0 /\ queueIndex = Len(queue) - 1

\* C3: with shuffle off and repeat not "all", next() at the last position
\* of a non-empty queue changes nothing: queue, queueIndex, currentTrack,
\* isPlaying, the engine and the pending engine calls stay as they were.
C3_NextAtEndIsNoOp ==
    [][(lastOp'.op = "next" /\ ~shuffle /\ repeat # "all" /\ AtLast)
       => UNCHANGED <<queue, queueIndex, currentTrack, isPlaying, engineVars, tasks>>]_vars

C3_Witness ==
    /\ lastOp = Op("next", 0)
    /\ ~shuffle /\ repeat = "off"
    /\ Len(queue) = 3 /\ queueIndex = 2
    /\ isPlaying /\ ~paused /\ src = currentTrack

\* C4: with shuffle off, next() at the last position of a non-empty queue
\* under repeat "all" sets queueIndex to 0 and plays queue[0]; before the
\* last position it sets queueIndex to queueIndex + 1 and plays that track.
C4_NextAdvancesOrWraps ==
    [][(lastOp'.op = "next" /\ ~shuffle /\ Len(queue) > 0)
       => /\ (AtLast /\ repeat = "all")
                => queueIndex' = 0 /\ Plays(At(queue, 0))
          /\ (queueIndex < Len(queue) - 1)
                => queueIndex' = queueIndex + 1 /\ Plays(At(queue, queueIndex + 1))]_vars

C4_Witness ==
    /\ lastOp = Op("next", 1)
    /\ ~shuffle /\ repeat = "all"
    /\ Len(queue) = 3 /\ queueIndex = 0
    /\ currentTrack = queue[1]
    /\ isPlaying

-----------------------------------------------------------------------------
(* previous() *)

\* C5: previous() with more than 3 s elapsed seeks the engine to 0 and
\* leaves queue, queueIndex and currentTrack unchanged.
C5_PreviousRestarts ==
    [][(lastOp'.op = "previous" /\ progress > SeekThreshold)
       => currentTime' = 0 /\ UNCHANGED <<queue, queueIndex, currentTrack>>]_vars

C5_Witness ==
    /\ lastOp = Op("previous", 2)
    /\ progress > SeekThreshold
    /\ currentTime = 0
    /\ Len(queue) = 3 /\ queueIndex = 1

\* C6 as stated: previous() at or below the threshold on a non-empty queue
\* moves queueIndex to queueIndex - 1, or to the last position when
\* queueIndex is 0, and plays that track.
C6_PreviousMoves_Stated ==
    [][(lastOp'.op = "previous" /\ progress <= SeekThreshold /\ Len(queue) > 0)
       => /\ queueIndex' = IF queueIndex = 0 THEN Len(queue) - 1 ELSE queueIndex - 1
          /\ Plays(At(queue, queueIndex'))]_vars

\* C6 as amended: previous() at or below the threshold on a non-empty queue
\* moves queueIndex to queueIndex - 1 when queueIndex > 0 and to the last
\* position when queueIndex is 0 or -1 (no selection), and plays that track,
\* for every repeat mode.
C6_PreviousMoves ==
    [][(lastOp'.op = "previous" /\ progress <= SeekThreshold /\ Len(queue) > 0)
       => /\ queueIndex' = IF queueIndex > 0 THEN queueIndex - 1 ELSE Len(queue) - 1
          /\ Plays(At(queue, queueIndex'))]_vars

C6_Witness ==
    /\ lastOp = Op("previous", 3)
    /\ repeat = "off"
    /\ progress <= SeekThreshold
    /\ Len(queue) = 3 /\ queueIndex = 2
    /\ currentTrack = queue[3]

\* C7 as stated: previous() at progress 1.5 s seeks the engine to 0 and
\* leaves queueIndex unchanged.
C7_PreviousAtOneAndHalf_Stated ==
    [][(lastOp'.op = "previous" /\ progress = 15)
       => currentTime' = 0 /\ queueIndex' = queueIndex]_vars

\* C7 as amended: previous() at progress 1.5 s does not seek: the engine is
\* left as it was, and on a non-empty queue queueIndex moves to the previous
\* entry (the last one from 0) and that track is played; on an empty queue
\* nothing changes.
C7_PreviousAtOneAndHalf ==
    [][(lastOp'.op = "previous" /\ progress = 15)
       => /\ UNCHANGED engineVars
          /\ Len(queue) > 0
                => /\ queueIndex' = IF queueIndex > 0 THEN queueIndex - 1
                                    ELSE Len(queue) - 1
                   /\ Plays(At(queue, queueIndex'))
          /\ Len(queue) = 0 => UNCHANGED <<storeVars, tasks>>]_vars

C7_Witness ==
    /\ lastOp = Op("previous", 1)
    /\ progress = 15
    /\ currentTime = 15
    /\ Len(queue) = 3 /\ queueIndex = 0
    /\ currentTrack = queue[1]

\* C8 as stated: previous() at progress 10 s from queueIndex 0 on a
\* 3-track queue wraps queueIndex to 2.
C8_PreviousAtTen_Stated ==
    [][(lastOp'.op = "previous" /\ progress = 100 /\ queueIndex = 0 /\ Len(queue) = 3)
       => queueIndex' = 2]_vars

\* C8 as amended: previous() at progress 10 s from queueIndex 0 on a
\* 3-track queue seeks the engine to 0 and leaves queueIndex at 0 (and the
\* queue and currentTrack as they were), whatever the repeat mode.
C8_PreviousAtTen ==
    [][(lastOp'.op = "previous" /\ progress = 100 /\ queueIndex = 0 /\ Len(queue) = 3)
       => currentTime' = 0 /\ UNCHANGED <<queue, queueIndex, currentTrack>>]_vars

C8_Witness ==
    /\ lastOp = Op("previous", 2)
    /\ progress = 100
    /\ repeat = "all"
    /\ Len(queue) = 3 /\ queueIndex = 0
    /\ currentTime = 0

-----------------------------------------------------------------------------
(* playTrack *)

\* C9: playTrack(track, queue) replaces the queue and sets queueIndex to the
\* position of the first entry with track.id, or 0 when there is none;
\* playTrack(track) leaves queue and queueIndex; in every case the track
\* becomes currentTrack and is loaded into the engine, so that when play
\* succeeds the engine's source is the track's and isPlaying is true.
C9_PlayTrackLoadsAndPlays ==
    [][/\ \A track \in Tracks : \A q \in SuppliedQueues :
            playTrack(track, TRUE, q)
               => /\ queue' = q
                  /\ currentTrack' = track
                  /\ IF \E k \in 1..Len(q) : q[k].id = track.id
                     THEN /\ q[queueIndex' + 1].id = track.id
                          /\ \A k \in 1..queueIndex' : q[k].id # track.id
                     ELSE queueIndex' = 0
       /\ \A track \in Tracks :
            playTrack(track, FALSE, <<>>)
               => currentTrack' = track /\ UNCHANGED <<queue, queueIndex>>
       /\ \A task \in BagToSet(tasks) :
            (task.t # NoTrack /\ startedStep(task) /\ lastOp'.b = 1)
               => src' = task.t /\ isPlaying']_vars

\* The part of C9 that holds: everything but the load of a track that has
\* neither a file handle nor a stream URL.
PlayTrackLoadsWhenPlayable ==
    [][\A task \in BagToSet(tasks) :
            (task.t.kind \in {"file", "stream"} /\ startedStep(task) /\ lastOp'.b = 1)
               => src' = task.t /\ isPlaying']_vars

-----------------------------------------------------------------------------
(* removeFromQueue of the current entry *)

\* C10: removeFromQueue(queueIndex) of a current entry that is the last
\* entry sets queueIndex to the new length - 1 (-1 when the queue becomes
\* empty); of a current entry that is not the last it keeps queueIndex,
\* which stays within the shorter queue.
C10_RemoveCurrent ==
    [][(queueIndex \in InRange(queue) /\ removeFromQueue(queueIndex))
       => IF queueIndex = Len(queue) - 1
          THEN /\ queueIndex' = Len(queue') - 1
               /\ Len(queue') = 0 => queueIndex' = -1
          ELSE /\ queueIndex' = queueIndex
               /\ queueIndex' \in InRange(queue')]_vars

C10_Witness ==
    /\ lastOp = Op("removeFromQueue", 2)
    /\ Len(queue) = 2
    /\ queueIndex = 1

-----------------------------------------------------------------------------
(* Queue editing: reorder onto itself, append, clear *)

\* C11: reorderQueue(i, i) for an in-range i leaves the queue order and
\* queueIndex unchanged, whether i is before, at or after queueIndex.
C11_ReorderOntoItself ==
    [][\A i \in InRange(queue) :
          reorderQueue(i, i) => UNCHANGED <<queue, queueIndex>>]_vars

C11_Witness ==
    /\ lastOp = Op("reorderQueue", 4)
    /\ Len(queue) = 3
    /\ queueIndex = 1
    /\ queue[1] # queue[2]

\* C12: addToQueue(track) makes the track the last entry, keeps every
\* earlier entry at its position, and leaves queueIndex, currentTrack and
\* isPlaying unchanged.
C12_AddToQueueAppends ==
    [][\A track \in QueueTracks :
          addToQueue(track)
             => /\ Len(queue') = Len(queue) + 1
                /\ queue'[Len(queue')] = track
                /\ \A k \in 1..Len(queue) : queue'[k] = queue[k]
                /\ UNCHANGED <<queueIndex, currentTrack, isPlaying>>]_vars

C12_Witness ==
    /\ lastOp = Op("addToQueue", 0)
    /\ Len(queue) = 3
    /\ queue[1] # queue[3]
    /\ queueIndex = 1
    /\ isPlaying

\* C13: clearQueue() empties the queue and sets queueIndex to -1 without
\* stopping playback: currentTrack, isPlaying and the engine's source are
\* unchanged and the element is not paused by it.
C13_ClearQueueKeepsPlayback ==
    [][clearQueue
          => /\ queue' = <<>>
             /\ queueIndex' = -1
             /\ UNCHANGED <<currentTrack, isPlaying, src, paused, currentTime>>]_vars

C13_Witness ==
    /\ lastOp = Op("clearQueue", 1)
    /\ currentTrack # NoTrack
    /\ src = currentTrack
    /\ isPlaying
    /\ ~paused

-----------------------------------------------------------------------------
(* Shuffle and repeat-one *)

\* C14: with shuffle on and a non-empty queue, next() sets queueIndex to an
\* index of the queue and plays that track, for every repeat mode and every
\* current position, and every index of the queue, the current one
\* included, is a possible outcome; with an empty queue next() changes
\* nothing.
C14_ShuffleNext ==
    /\ [][(lastOp'.op = "next" /\ shuffle /\ Len(queue) > 0)
             => /\ queueIndex' \in InRange(queue)
                /\ Plays(At(queue, queueIndex'))
                /\ UNCHANGED queue]_vars
    /\ [][(lastOp'.op = "next" /\ Len(queue) = 0)
             => UNCHANGED <<storeVars, engineVars, tasks>>]_vars
    /\ [](shuffle /\ Len(queue) > 0 /\ Pending < MaxPending
             => \A n \in InRange(queue) :
                   ENABLED (next /\ queueIndex' = n /\ Plays(At(queue, n))))

C14_Witness ==
    /\ lastOp = Op("next", 3)
    /\ shuffle
    /\ repeat = "off"
    /\ Len(queue) = 3
    /\ queueIndex = 2
    /\ currentTrack = queue[3]

\* C15: when 'ended' arrives while repeat is "one", the handler seeks the
\* engine to 0 and calls play again and does not advance: queue, queueIndex
\* and currentTrack are unchanged, with shuffle on as well as off.
C15_EndedRepeatOne ==
    [][(lastOp'.op = "ended" /\ repeat = "one")
          => /\ currentTime' = 0
             /\ tasks' = tasks (+) SetToBag({Detached(Task(NoTrack, "play", FALSE))})
             /\ UNCHANGED <<queue, queueIndex, currentTrack>>]_vars

C15_Witness ==
    /\ lastOp = Op("ended", 2)
    /\ repeat = "one"
    /\ shuffle
    /\ Len(queue) = 3
    /\ queueIndex = 0
    /\ currentTime = 0
    /\ Pending = 1

-----------------------------------------------------------------------------
(* Volume *)

\* C16: right after setVolume(v), toggleMute() sets the engine's gain to 0
\* and keeps the stored volume v, and the toggleMute() that follows it sets
\* the engine's gain to exactly v again, with muted false.
C16_MuteRoundTrip ==
    [][/\ (lastOp.op = "setVolume" /\ lastOp'.op = "toggleMute")
             => gainNode' = <<0>> /\ volume' = volume /\ muted'
       /\ (lastOp = Op("toggleMute", 1) /\ lastOp'.op = "toggleMute")
             => gainNode' = <<volume>> /\ volume' = volume /\ ~muted']_vars

\* What holds of the round trip: with the engine initialized and v within
\* [0, 1] the gain goes to 0 and back to v.
MuteRoundTripWhenInitialized ==
    [][(isInitialized /\ volume >= MinVolume /\ volume <= MaxVolume)
          => /\ (lastOp.op = "setVolume" /\ lastOp'.op = "toggleMute")
                   => gainNode' = <<0>> /\ volume' = volume /\ muted'
             /\ (lastOp = Op("toggleMute", 1) /\ lastOp'.op = "toggleMute")
                   => gainNode' = <<volume>> /\ volume' = volume /\ ~muted']_vars

-----------------------------------------------------------------------------
(* Equalizer *)

Bands == 0..(Len(EQ_FREQUENCIES) - 1)

\* C17: setEQBand(i, g) with i a band clamps the gain to [-12, 12] in both
\* places: afterwards the live gain of band i and the stored eqBands[i] both
\* equal max(-12, min(12, g)).
C17_SetEQBandClamps ==
    [][\A index \in BandIndexValues \cap Bands : \A gain \in GainValues :
          setEQBand(index, gain)
             => /\ index < Len(eqNodes')
                /\ eqNodes'[index + 1] = Clamp(MinGain, MaxGain, gain)
                /\ index < Len(eqBands')
                /\ eqBands'[index + 1] = Clamp(MinGain, MaxGain, gain)]_vars

\* What holds of it: on an initialized engine the live gain is clamped, and
\* the stored entry is the gain as given.
SetEQBandClampsLiveGain ==
    [][\A index \in BandIndexValues \cap Bands : \A gain \in GainValues :
          (isInitialized /\ setEQBand(index, gain))
             => /\ eqNodes'[index + 1] = Clamp(MinGain, MaxGain, gain)
                /\ eqBands'[index + 1] = gain]_vars

\* C18: applyEQPreset(name) with a known name sets eqPresetName to the name
\* and eqBands to the preset's gains; with an unknown name it changes
\* nothing; every setEQBand call sets eqPresetName to "Custom".
C18_PresetThenCustom ==
    [][/\ \A presetName \in PresetNames :
             applyEQPreset(presetName)
                => IF \E k \in 1..Len(EQ_PRESETS) : EQ_PRESETS[k].name = presetName
                   THEN /\ eqPresetName' = presetName
                        /\ \E k \in 1..Len(EQ_PRESETS) :
                              /\ EQ_PRESETS[k].name = presetName
                              /\ eqBands' = EQ_PRESETS[k].bands
                   ELSE UNCHANGED <<storeVars, engineVars, tasks>>
       /\ \A index \in BandIndexValues : \A gain \in GainValues :
             setEQBand(index, gain) => eqPresetName' = "Custom"]_vars

C18_Witness ==
    /\ lastOp = Op("setEQBand", 1)
    /\ eqPresetName = "Custom"
    /\ eqBands = [EQ_PRESETS[2].bands EXCEPT ![4] = 6]

\* C19: toggleEQ() from enabled to disabled sets every live band gain to 0
\* and leaves the stored eqBands; the toggleEQ() after it applies exactly the
\* stored vector, so that the live gains are those before the round trip.
C19_ToggleEQRoundTrip ==
    [][toggleEQ
          => IF eqEnabled
             THEN /\ \A k \in 1..Len(eqNodes') : eqNodes'[k] = 0
                  /\ eqBands' = eqBands
             ELSE /\ eqBands' = eqBands
                  /\ \A k \in 1..Len(eqNodes') :
                        k <= Len(eqBands) /\ eqNodes'[k] = eqBands[k]
                  /\ (lastOp.op = "toggleEQ" /\ lastOp.b = 0)
                        => eqNodes' = lastOp.live]_vars

\* What holds of it: disabling zeroes the live gains and keeps the stored
\* vector; enabling applies the stored vector clamped, when it has one
\* number per band.
ToggleEQBypassAndRestore ==
    [][toggleEQ
          => /\ eqBands' = eqBands
             /\ eqEnabled => \A k \in 1..Len(eqNodes') : eqNodes'[k] = 0
             /\ (/\ ~eqEnabled
                 /\ isInitialized
                 /\ Len(eqBands) = Len(EQ_FREQUENCIES)
                 /\ \A k \in 1..Len(eqBands) : eqBands[k] \notin {Hole, Undefined})
                   => eqNodes' = [k \in 1..Len(eqBands) |->
                                     Clamp(MinGain, MaxGain, eqBands[k])]]_vars

\* C20: after any sequence of EQ actions the stored eqBands has one entry
\* per configured frequency band, and setEQBand with an index that is not a
\* band leaves the stored and the live gains as they were.
C20_EqBandsLength ==
    /\ [](Len(eqBands) = Len(EQ_FREQUENCIES))
    /\ [][\A index \in BandIndexValues \ Bands : \A gain \in GainValues :
             setEQBand(index, gain) => UNCHANGED <<eqBands, eqNodes>>]_vars

-----------------------------------------------------------------------------
(* Queue actions with an index outside the queue *)

Count(q, track) == Cardinality({k \in 1..Len(q) : q[k] = track})

\* the queue holds tracks only and queueIndex is -1 or denotes an entry
WellFormed(q, qi) ==
    /\ \A k \in 1..Len(q) : q[k] # NoTrack
    /\ qi = -1 \/ qi \in InRange(q)

\* C21: removeFromQueue(i) and reorderQueue(from, to) with an index outside
\* [0, queue.length) leave a queue of exactly the same tracks without
\* undefined entries, and a queueIndex that is -1 or within the queue and
\* denotes the same track as before.
C21_OutOfRangeIndices ==
    [][(/\ WellFormed(queue, queueIndex)
        /\ \/ \E index \in AnyIndex \ InRange(queue) : removeFromQueue(index)
           \/ \E fromIndex \in AnyIndex, toIndex \in AnyIndex :
                 /\ fromIndex \notin InRange(queue) \/ toIndex \notin InRange(queue)
                 /\ reorderQueue(fromIndex, toIndex))
          => /\ Len(queue') = Len(queue)
             /\ \A track \in QueueTracks : Count(queue', track) = Count(queue, track)
             /\ WellFormed(queue', queueIndex')
             /\ At(queue', queueIndex') = At(queue, queueIndex)]_vars

\* What holds of it: an index at or past the length makes removeFromQueue
\* a no-op.
RemovePastEndIsNoOp ==
    [][\A index \in AnyIndex :
          (WellFormed(queue, queueIndex) /\ index >= Len(queue) /\ removeFromQueue(index))
             => UNCHANGED <<queue, queueIndex>>]_vars

-----------------------------------------------------------------------------
(* Equalizer state against the audio graph *)

\* C22: in every state where the engine is initialized and eqEnabled is
\* true, the live gain of each band equals the stored eqBands value of the
\* band, clamped to [-12, 12]; EQ actions issued before the engine is
\* initialized are covered.
C22_EqSynchronized ==
    (isInitialized /\ eqEnabled)
       => \A k \in 1..Len(eqNodes) :
             /\ k <= Len(eqBands)
             /\ eqNodes[k] = Clamp(MinGain, MaxGain, eqBands[k])

\* What holds of it: an EQ action on an initialized engine with the EQ
\* enabled leaves each band it names at the clamped stored value.
SetEQBandSynchronizes ==
    [][\A index \in BandIndexValues \cap Bands : \A gain \in GainValues :
          (isInitialized /\ setEQBand(index, gain))
             => eqNodes'[index + 1] = Clamp(MinGain, MaxGain, eqBands'[index + 1])]_vars

-----------------------------------------------------------------------------
(* Object URLs *)

\* C23: the engine has one source, and after any sequence of loads,
\* overlapping ones included, and of destroy() at most one object URL
\* created by the engine is unrevoked: the one the current source is, when
\* it is one.
C23_OneObjectUrl ==
    /\ liveUrls <= 1
    /\ liveUrls = 1 <=> src.kind = "file"

C23_Witness ==
    /\ lastOp = Op("load", 1)
    /\ src = TrackA
    /\ liveUrls = 1
    /\ \E task \in BagToSet(tasks) : task.t = TrackA /\ task.pc = "started"
    /\ \E task \in BagToSet(tasks) : task.t = TrackA /\ task.pc = "play"

-----------------------------------------------------------------------------
(* initialize() *)

\* a step of play() or of a load that got past initialize()
PastInitialize ==
    /\ lastOp'.op \in {"load", "play"}
    /\ lastOp'.b \in {1, 3}

\* C29 as stated: initialize() on an initialized engine builds nothing,
\* leaves graph, source and gains unchanged and resumes a suspended
\* context; the graph is constructed at most once between startup (or
\* destroy) and the next destroy.
C29_InitializeIdempotent_Stated ==
    /\ [][(isInitialized /\ lastOp'.op = "initialize")
             => /\ UNCHANGED <<isInitialized, src, gainNode, eqNodes, builds>>
                /\ contextState' = "running"]_vars
    /\ [][(isInitialized /\ PastInitialize)
             => UNCHANGED <<gainNode, eqNodes, builds>>]_vars
    /\ [](builds <= 1)

\* C29 as amended: initialize() on an initialized engine changes nothing at
\* all, a suspended context stays suspended; it is ensureInitialized(), in
\* play() and in the loads, that resumes a suspended context before going
\* on.  No call builds a second graph.
C29_InitializeIdempotent ==
    /\ [][(isInitialized /\ lastOp'.op = "initialize")
             => UNCHANGED <<storeVars, engineVars, tasks>>]_vars
    /\ [][(isInitialized /\ PastInitialize)
             => /\ UNCHANGED <<gainNode, eqNodes, builds>>
                /\ contextState = "suspended" <=> lastOp'.b = 3]_vars
    /\ [][lastOp'.op \in {"loadResume", "playResume"}
             => contextState' = "running" /\ UNCHANGED <<gainNode, eqNodes, builds>>]_vars
    /\ [](builds <= 1)

C29_Witness ==
    /\ lastOp = Op("initialize", 2)
    /\ contextState = "suspended"
    /\ builds = 1
    /\ src = TrackA
    /\ gainNode = <<3>>
    /\ eqNodes[4] = 6

\* C30: when constructing the graph fails, initialize() emits 'error' and
\* throws to its caller, and the engine stays uninitialized, so that a later
\* initialize(), play() or load constructs again.
C30_InitializeFailure ==
    /\ [][(lastOp'.op = "initialize" /\ lastOp'.b = 0)
             => /\ ~isInitialized'
                /\ UNCHANGED <<gainNode, eqNodes, builds, contextState, tasks>>]_vars
    /\ [][(~isInitialized /\ lastOp'.op \in {"load", "play"} /\ lastOp'.b \in {0, 2})
             => /\ ~isInitialized'
                /\ BagCardinality(tasks') = BagCardinality(tasks) - 1
                /\ UNCHANGED <<gainNode, eqNodes, builds, contextState>>]_vars
    /\ [](~isInitialized
             => /\ ENABLED (initialize /\ isInitialized' /\ builds' = 1)
                /\ \A task \in BagToSet(tasks) :
                      /\ task.pc = "load" => ENABLED (loadStep(task) /\ isInitialized')
                      /\ task.pc = "play" => ENABLED (playStep(task) /\ isInitialized'))

C30_Witness ==
    /\ lastOp = Op("initialize", 0)
    /\ ~isInitialized
    /\ \E task \in BagToSet(tasks) : task.pc = "load"

-----------------------------------------------------------------------------
(* Overlapping loads *)

\* C24: overlapping playTrack calls are not serialized.  A load that
\* completes assigns its own track as the engine's source whatever the
\* store's current track has become, and any pending load can be the next
\* to complete, so the source left at the end is the one of the load that
\* completed last, the first-issued call's included.
C24_LastLoadWins ==
    /\ [][(lastOp'.op \in {"load", "loadResume"} /\ lastOp'.b = 1)
             => \E task \in BagToSet(tasks) :
                   /\ task.pc = lastOp'.op
                   /\ tasks' = Replace(task, At_pc(task, "play"))
                   /\ src' = task.t]_vars
    /\ [](\A task \in BagToSet(tasks) :
             task.pc = "load" => ENABLED (loadStep(task) /\ lastOp'.b # 0))

\* the first-issued call's load (TrackA) landed after the second's (TrackR)
C24_Witness ==
    /\ lastOp = Op("load", 1)
    /\ currentTrack = TrackR
    /\ src = TrackA
    /\ \E task \in BagToSet(tasks) : task.t = TrackR /\ task.pc = "started"

-----------------------------------------------------------------------------
(* Load failures *)

\* the last step was a load failing: getFile() threw, or the element
\* reported a media error
LoadFailed ==
    \/ lastOp.op = "getFile" /\ lastOp.b \in {0, 2}
    \/ lastOp.op = "error"

\* the step is an explicit next(), previous() or playTrack() call
ExplicitCall == lastOp'.op \in {"next", "previous", "playTrack", "playTrackQueue"}

NoAdvance ==
    /\ UNCHANGED <<queue, queueIndex, currentTrack>>
    /\ BagCardinality(tasks') <= BagCardinality(tasks)

\* C25: after a load failure nothing but an explicit next(), previous() or
\* playTrack() call changes queue or queueIndex or issues a load.
C25_NoAutoAdvance ==
    [][(LoadFailed /\ ~ExplicitCall) => NoAdvance]_vars

\* the part that holds: while the element is in its error state, only an
\* explicit call moves the queue position or issues a load
NoAdvanceAfterMediaError ==
    [][(mediaError /\ ~ExplicitCall) => NoAdvance]_vars

-----------------------------------------------------------------------------
(* Unhandled rejections *)

\* C26: no failure of file access, engine initialization, load or play ends
\* as an unhandled rejection: each one reaches a caller that awaits the
\* promise (outcome 0), none settles a promise nobody holds (outcome 2).
C26_NoUnhandledRejection ==
    ~(/\ lastOp.op \in {"getFile", "load", "play", "started", "rejected"}
      /\ lastOp.b = 2)

\* the part that holds: the failure of an action the caller awaits reaches
\* that caller
AwaitedFailureReported ==
    [][\A task \in BagToSet(tasks) :
          (task.awaited /\ tasks' = Finish(task) /\ lastOp'.b # 1)
             => lastOp'.b = 0]_vars

-----------------------------------------------------------------------------
(* Progress across track changes *)

\* C27: every step that changes the current track (setTrack inside
\* playTrack, next, previous and the 'ended' handler) resets the store's
\* progress to 0.
C27_ProgressResetOnTrackChange ==
    [][currentTrack' # currentTrack => progress' = 0]_vars

\* what the code does: a track change leaves progress as it was
TrackChangeKeepsProgress ==
    [][currentTrack' # currentTrack => progress' = progress]_vars

-----------------------------------------------------------------------------
(* Volume across loads *)

\* a step of playTrack or of its loads and play
LoadOrPlay == lastOp'.op \in {"playTrack", "getFile", "load", "play", "started"}

\* C28: setVolume(v) at any point after startup leaves the engine's gain at
\* max(0, min(1, v)); playTrack and the loads leave the gain of an
\* initialized engine unchanged; and while not muted the gain of an
\* initialized engine is the store's volume clamped to [0, 1].
C28_VolumeGain ==
    /\ [][\A v \in VolumeValues :
             setVolume(v) => gainNode' = <<Clamp(MinVolume, MaxVolume, v)>>]_vars
    /\ [][(isInitialized /\ LoadOrPlay) => gainNode' = gainNode]_vars
    /\ []((isInitialized /\ ~muted)
             => gainNode = <<Clamp(MinVolume, MaxVolume, volume)>>)

\* the part that holds: on an initialized engine setVolume(v) sets the gain
\* to the clamped v and the loads leave it alone
VolumeGainWhenInitialized ==
    /\ [][\A v \in VolumeValues :
             (isInitialized /\ setVolume(v))
                => gainNode' = <<Clamp(MinVolume, MaxVolume, v)>>]_vars
    /\ [][(isInitialized /\ LoadOrPlay) => gainNode' = gainNode]_vars

-----------------------------------------------------------------------------
(* destroy() and the engine's events *)

\* the engine's resources are those of an engine never initialized
ResourcesReleased ==
    /\ ~isInitialized
    /\ src = NoTrack
    /\ paused
    /\ currentTime = 0
    /\ ~mediaError
    /\ contextState = "none"
    /\ liveUrls = 0
    /\ builds = 0
    /\ gainNode = <<>>
    /\ eqNodes = <<>>

\* the element reaches the natural end of its source
NaturalEnd == lastOp'.op = "ended"

\* the 'ended' handler of the coordinator ran: seekTo(0) + play for repeat
\* "one", a next() call otherwise
EndedReaction ==
    IF EndedReplays(repeat)
    THEN /\ lastOp'.b = 2
         /\ currentTime' = 0
         /\ BagCardinality(tasks') = BagCardinality(tasks) + 1
    ELSE lastOp'.b \in {0, 1, 3}

\* C31: destroy() can be called in every state and leaves the engine as one
\* never initialized, the coordinator's event listeners included, so that
\* in a later initialize/load/play cycle 'ended' and progress events reach
\* the coordinator as on a fresh engine.
C31_DestroyResets ==
    /\ [](ENABLED destroy)
    /\ [][lastOp'.op = "destroy" => (ResourcesReleased' /\ listeners')]_vars
    /\ [][NaturalEnd => EndedReaction]_vars
    /\ [][lastOp'.op = "timeupdate" => progress' = currentTime']_vars

\* the part that holds: destroy() is always possible and releases every
\* resource of the engine
DestroyReleasesResources ==
    /\ [](ENABLED destroy)
    /\ [][lastOp'.op = "destroy" => ResourcesReleased']_vars

\* C32: every natural end of the active source leads to exactly one reaction
\* of the coordinator: seekTo(0) + play when repeat is "one", a next() call
\* otherwise.
C32_EndedTriggersReaction ==
    [][NaturalEnd => EndedReaction]_vars

\* the part that holds: while the coordinator's listeners are registered
\* (destroy() was never called) every natural end triggers the reaction
EndedReactionWhileListening ==
    [][(listeners /\ NaturalEnd) => EndedReaction]_vars

-----------------------------------------------------------------------------
(* Persistence *)

Restarted == lastOp'.op = "restart"

\* queue, current track and playback position start afresh
TransportReset ==
    /\ queue' = <<>>
    /\ queueIndex' = -1
    /\ currentTrack' = NoTrack
    /\ progress' = 0
    /\ ~isPlaying'

\* C33: after a restart the queue is empty, queueIndex is -1 and
\* currentTrack is null, and volume, shuffle, repeat, eqEnabled, eqBands and
\* eqPresetName have the values last written.
C33_PersistedSubset ==
    [][Restarted
          => /\ TransportReset
             /\ UNCHANGED <<volume, shuffle, repeat, eqEnabled, eqBands,
                            eqPresetName>>]_vars

\* the part that holds: the transport starts afresh, the five other settings
\* are restored, and eqBands is restored when every entry of it is a number
RestartRestoresNumbers ==
    [][Restarted
          => /\ TransportReset
             /\ UNCHANGED <<volume, shuffle, repeat, eqEnabled, eqPresetName>>
             /\ (\A k \in 1..Len(eqBands) : eqBands[k] \notin {Hole, Undefined})
                   => UNCHANGED eqBands]_vars

-----------------------------------------------------------------------------
(* Unresolvable streams *)

\* C34: when the resolver yields no playable URL for a catalog track (null
\* or a failure), the play action ends with an alert and without playTrack:
\* queue, queueIndex, currentTrack and isPlaying are unchanged and no load
\* is issued to the engine.
C34_UnresolvableStream ==
    [][(lastOp'.op = "resolve" /\ lastOp'.b \in {0, 4})
          => /\ UNCHANGED <<queue, queueIndex, currentTrack, isPlaying, engineVars>>
             /\ BagCardinality(tasks') = BagCardinality(tasks) - 1
             /\ \A task \in BagToSet(tasks') : task \in BagToSet(tasks)]_vars

C34_Witness ==
    /\ lastOp = Op("resolve", 0)
    /\ currentTrack = TrackA
    /\ queue = SearchResults
    /\ isPlaying
    /\ src = TrackA
    /\ tasks = EmptyBag

-----------------------------------------------------------------------------
(* Seeking *)

\* the position after a seek lies inside the track (at 0 while the duration
\* is unknown)
PositionInTrack ==
    /\ 0 <= currentTime'
    /\ currentTime' <= DurationOrZero(lastOp'.duration)

\* C35: seek(fraction) with fraction in [0, 1] sets the position to
\* fraction * duration and changes nothing while the duration is unknown (0
\* or not yet reported); seekTo(seconds) sets the position to
\* max(0, min(seconds, duration)); after either call the position lies
\* between 0 and the duration.
C35_SeekInsideTrack ==
    [][/\ lastOp'.op = "seek"
             => /\ IF DurationOrZero(lastOp'.duration) = 0
                   THEN currentTime' = currentTime
                   ELSE currentTime' * 10 = lastOp'.b * lastOp'.duration
                /\ PositionInTrack
       /\ lastOp'.op = "seekTo"
             => /\ currentTime' = Clamp(0, DurationOrZero(lastOp'.duration), lastOp'.b)
                /\ PositionInTrack]_vars

C35_Witness ==
    /\ lastOp = [op |-> "seekTo", b |-> 400, duration |-> 300]
    /\ src = TrackA
    /\ ~paused
    /\ currentTime = 300

-----------------------------------------------------------------------------
(* Catalog search *)

\* C36: search retries at most once after a 401: whatever the token and
\* search endpoints answer, a search() call issues at most two search
\* requests.
C36_SearchRetriesOnce == spotifyService.requests <= 2

\* the part that holds: a failure of the token endpoint, and a failure of
\* the search endpoint other than a 401, end the call with an empty list
SearchFailureReturnsEmpty ==
    [][(lastOp' \in {Op("token", 0), Op("searchResponse", 0)})
          => /\ spotifyService'.pc = "done"
             /\ spotifyService'.result = "empty"
             /\ spotifyService'.requests = spotifyService.requests]_vars

-----------------------------------------------------------------------------
(* Atomicity of next() and previous() *)

\* next() or previous() chose a target index
ChoseTarget ==
    /\ lastOp'.op \in {"next", "previous"}
    /\ lastOp'.b \in {1, 3, 4}

-----------------------------------------------------------------------------
(* isPlaying and the engine *)

\* the engine's active source is playing
EnginePlaying == src # NoTrack /\ ~paused /\ ~mediaError

\* C38: in every quiescent state (no action pending) isPlaying is true only
\* if the engine's active source is playing; so it is false after the
\* source ended with no track to advance to and after a failed play.
C38_IsPlayingTracksEngine ==
    (tasks = EmptyBag /\ isPlaying) => EnginePlaying

\* the part that holds: pausing through togglePlayPause() pauses the element
\* and clears the flag, and the flag is set only when the promise of play()
\* has resolved on a loaded source
IsPlayingSetOnSuccess ==
    [][/\ lastOp' = Op("togglePlayPause", 0) => (paused' /\ ~isPlaying')
       /\ (~isPlaying /\ isPlaying')
             => (lastOp' = Op("started", 1) /\ src' # NoTrack /\ ~mediaError')]_vars

-----------------------------------------------------------------------------
(* Bypass while the EQ is disabled *)

\* C39: in every state with the engine initialized and eqEnabled false,
\* every live band gain is 0, also after setEQBand, setEQBands or
\* applyEQPreset calls made while the EQ is disabled.
C39_BypassedWhileDisabled ==
    (isInitialized /\ ~eqEnabled) => \A k \in 1..Len(eqNodes) : eqNodes[k] = 0

\* the part that holds: disabling zeroes every live gain, and an EQ action
\* made while the EQ is disabled leaves it disabled and stores its gain
DisablingBypasses ==
    [][/\ (eqEnabled /\ toggleEQ) => \A k \in 1..Len(eqNodes') : eqNodes'[k] = 0
       /\ \A gain \in GainValues :
             (~eqEnabled /\ setEQBand(3, gain))
                => (~eqEnabled' /\ eqBands'[4] = gain)]_vars

-----------------------------------------------------------------------------
(* What is playing *)

\* the source of a track: none for a track with neither file handle nor
\* stream URL
SourceOf(track) == IF track.kind \in {"file", "stream"} THEN track ELSE NoTrack

\* C40: once a call has completed and no playTrack / next / previous call
\* is pending, the source loaded in the engine is the source of the store's
\* currentTrack, also when overlapping calls completed their loads out of
\* order.
C40_CurrentTrackIsLoaded ==
    (lastOp = Op("started", 1) /\ tasks = EmptyBag) => src = SourceOf(currentTrack)

\* the part that holds (under SpecGain): playTrack calls that do not
\* overlap leave the engine with the source of the current track, when
\* that track has one
SequentialCallsAgree ==
    (/\ lastOp = Op("started", 1)
     /\ tasks = EmptyBag
     /\ SourceOf(currentTrack) # NoTrack)
       => src = currentTrack

=============================================================================
